---- MODULE Spec2Model ----
(***************************************************************************)
(* Model of the alert-rule operator's two reconcilers:                     *)
(*   - DeploymentReconciler  (internal/controller/deployment_controller.go) *)
(*   - AlertRuleReconciler   (internal/controller/alertrule_controller.go)  *)
(* running against one object store that holds a Deployment, the AlertRule *)
(* "<deployment>-alert" and the PrometheusRule of the same name.           *)
(*                                                                         *)
(* Every store call (Get/Create/Update/Delete/Status().Update) is one      *)
(* atomic step; a Reconcile is a sequence of such steps, so users and the  *)
(* other reconciler interleave between the calls of one run.  Runs for the *)
(* same key are serialized (one process per reconciler).                   *)
(*                                                                         *)
(* Not modelled: Condition.LastTransitionTime and ObservedGeneration, and  *)
(* the log output.                                                         *)
(***************************************************************************)
EXTENDS Integers, Sequences, FiniteSets, TLC

VARIABLES
    storeDeployment,      \* the Deployment req.NamespacedName names, in the store
    storeAlertRule,       \* the AlertRule "<deployment>-alert", in the store
    storePrometheusRule,  \* the PrometheusRule "<deployment>-alert", in the store
    storeConfigMap,       \* the ConfigMap "alertrule-<deployment>-alert", in the store
    storeOtherAlertRules, \* the AlertRules under other names or namespaces, in the store
    created,              \* per kind, how many objects the store has created
    drPc,                 \* DeploymentReconciler.Reconcile: position
    drDeployment,         \* its local `deployment`
    drAlertRule,          \* its local `alertRule`
    drResult,             \* what the run returned: "none" | "ok" | "err"
    drLog,                \* store calls of the run, <<call, outcome>> each
    arPc,                 \* AlertRuleReconciler.Reconcile: position
    arAlertRule,          \* its local `alertRule`
    arExistingRule,       \* its local `existingRule`
    arResult,             \* what the run returned
    arLog                 \* store calls of the run

vars == <<storeDeployment, storeAlertRule, storePrometheusRule, storeConfigMap,
          storeOtherAlertRules, created,
          drPc, drDeployment, drAlertRule, drResult, drLog,
          arPc, arAlertRule, arExistingRule, arResult, arLog>>

storeVars == <<storeDeployment, storeAlertRule, storePrometheusRule,
               storeConfigMap, storeOtherAlertRules, created>>
drVars == <<drPc, drDeployment, drAlertRule, drResult, drLog>>
arVars == <<arPc, arAlertRule, arExistingRule, arResult, arLog>>

---------------------------------------------------------------------------
(* Bounds *)

\* objects of one kind the store creates (UIDs of a kind run 1..MaxCreated)
MaxCreated == 1
\* writes one object accepts (its resourceVersion runs 1..MaxRV)
MaxRV == 3

\* highest resourceVersion of an AlertRule that the status writes of the
\* ConfigMap backend reach (a run writes up to three conditions)
MaxStatusRV == 4
\* length of the condition lists the upsert specification starts from
MaxConditions == 2

---------------------------------------------------------------------------
(* Values *)

\* absence: a nil pointer, a nil map, an object that is not in the store
Nil == [nil |-> TRUE]
None == [exists |-> FALSE]

ReqNamespace == "default"
ReqName == "checkout"
OtherNamespace == "staging"

\* keys of AlertRules that are not "<req.Name>-alert" in req.Namespace: the same
\* name in another namespace, another name in the same namespace
OtherKeys == { <<OtherNamespace, "checkout-alert">>, <<ReqNamespace, "payments-alert">> }

EmptyMap == <<>>

DeploymentAPIVersion == "apps/v1"
DeploymentKind == "Deployment"
AlertRuleAPIVersion == "monitoring.example.com/v1"
AlertRuleKind == "AlertRule"
PrometheusRuleAPIVersion == "monitoring.coreos.com/v1"
PrometheusRuleKind == "PrometheusRule"
ConfigMapAPIVersion == "v1"
ConfigMapKind == "ConfigMap"

\* m overlaid with u: `for k, v := range u { m[k] = v }`
Overlay(m, u) ==
    [k \in (DOMAIN m) \cup (DOMAIN u) |-> IF k \in DOMAIN u THEN u[k] ELSE m[k]]

---------------------------------------------------------------------------
(* The store (the API server behind client.Client) *)

\* an object as the store keeps it after a Create: fresh UID, first version,
\* no deletion timestamp; the status of a new AlertRule is empty
Stored(obj) ==
    obj @@ [exists |-> TRUE, uid |-> <<obj.kind, created[obj.kind] + 1>>,
            rv |-> 1, deleting |-> FALSE]

\* the store can still create an object of the kind
CanCreate(kind) == created[kind] < MaxCreated

\* the UID allocator after a Create of the kind
Allocated(kind) == [created EXCEPT ![kind] = @ + 1]

\* outcome of Get
GetOutcome(stored) == IF stored.exists THEN "ok" ELSE "notfound"

\* outcome of Create
CreateOutcome(stored) == IF stored.exists THEN "exists" ELSE "ok"

\* outcome of Update / Status().Update of obj: the object must still be the
\* one that was read (UID) at the version that was read (resourceVersion)
UpdateOutcome(stored, obj) ==
    IF ~stored.exists THEN "notfound"
    ELSE IF stored.uid # obj.uid \/ stored.rv # obj.rv THEN "conflict"
    ELSE "ok"

\* what an accepted Update leaves in the store: the new content under the
\* next resourceVersion; an update that changes nothing writes nothing
Written(stored, replaced) ==
    IF replaced = stored THEN stored ELSE [replaced EXCEPT !.rv = stored.rv + 1]

\* outcome of Delete (by name; no precondition is sent)
DeleteOutcome(stored) == IF stored.exists THEN "ok" ELSE "notfound"

\* any store call may fail with a transient error (timeout, unavailable)
FaultChoices == {FALSE, TRUE}

---------------------------------------------------------------------------
(* DeploymentReconciler: pure parts *)


\* fmt.Sprintf("%s-alert", deployment.Name)
AlertRuleName(deploymentName) == deploymentName \o "-alert"

\* a faulty variant: the default AlertRule carries no owner reference and
\* waits five minutes
createDefaultAlertRule_Unowned(deployment, name) ==
    [ name       |-> name,
      namespace  |-> deployment.namespace,
      apiVersion |-> AlertRuleAPIVersion,
      kind       |-> AlertRuleKind,
      labels     |-> ("app" :> deployment.name)
                     @@ ("managed-by" :> "alert-rule-operator")
                     @@ ("deployment.kubernetes.io/name" :> deployment.name),
      ownerReferences |-> << >>,
      spec |->
          [ alert    |-> deployment.name \o "PodDown",
            expr     |-> "up{job=\"" \o deployment.name \o "\"} == 0",
            for      |-> "5m",
            severity |-> "critical",
            labels   |-> ("deployment" :> deployment.name)
                         @@ ("namespace" :> deployment.namespace),
            annotations |->
                ("summary" :> ("Pod " \o deployment.name \o " is down"))
                @@ ("description" :>
                      ("Pod " \o deployment.name \o " in namespace "
                       \o deployment.namespace
                       \o " has been down for more than 1 minutes")),
            deploymentRef |-> [ namespace |-> deployment.namespace,
                                name      |-> deployment.name ] ],
      conditions |-> << >> ]

\* createDefaultAlertRule(deployment, name)
createDefaultAlertRule(deployment, name) ==
    [ name       |-> name,
      namespace  |-> deployment.namespace,
      apiVersion |-> AlertRuleAPIVersion,
      kind       |-> AlertRuleKind,
      labels     |-> ("app" :> deployment.name)
                     @@ ("managed-by" :> "alert-rule-operator")
                     @@ ("deployment.kubernetes.io/name" :> deployment.name),
      ownerReferences |->
          << [ apiVersion |-> deployment.apiVersion,
               kind       |-> deployment.kind,
               name       |-> deployment.name,
               uid        |-> deployment.uid,
               controller |-> TRUE,
               blockOwnerDeletion |-> TRUE ] >>,
      spec |->
          [ alert    |-> deployment.name \o "PodDown",
            expr     |-> "up{job=\"" \o deployment.name \o "\"} == 0",
            for      |-> "1m",
            severity |-> "critical",
            labels   |-> ("deployment" :> deployment.name)
                         @@ ("namespace" :> deployment.namespace),
            annotations |->
                ("summary" :> ("Pod " \o deployment.name \o " is down"))
                @@ ("description" :>
                      ("Pod " \o deployment.name \o " in namespace "
                       \o deployment.namespace
                       \o " has been down for more than 1 minutes")),
            deploymentRef |-> [ namespace |-> deployment.namespace,
                                name      |-> deployment.name ] ],
      conditions |-> << >> ]

\* a faulty variant: the comparison forgets the namespace
RefStale_NameOnly(alertRule, deployment) ==
    \/ alertRule.spec.deploymentRef = Nil
    \/ alertRule.spec.deploymentRef.name # deployment.name

\* the condition under which Reconcile rewrites spec.deploymentRef
RefStale(alertRule, deployment) ==
    \/ alertRule.spec.deploymentRef = Nil
    \/ alertRule.spec.deploymentRef.namespace # deployment.namespace
    \/ alertRule.spec.deploymentRef.name # deployment.name

\* a faulty variant: the update carries the default spec instead of the fetched one
WithDeploymentRef_DefaultSpec(alertRule, deployment) ==
    [alertRule EXCEPT !.spec = createDefaultAlertRule(deployment, alertRule.name).spec]

\* the object Reconcile hands to r.Update: the fetched AlertRule with only
\* spec.deploymentRef reassigned
WithDeploymentRef(alertRule, deployment) ==
    [alertRule EXCEPT !.spec.deploymentRef =
        [namespace |-> deployment.namespace, name |-> deployment.name]]

---------------------------------------------------------------------------
(* DeploymentReconciler.Reconcile, one action per store call *)

\* a faulty variant: the deletion timestamp of the Deployment is not looked at
DRGetDeployment_IgnoresDeletion ==
    /\ drPc \in {"idle", "done"}
    /\ \E fault \in FaultChoices :
        LET outcome == IF fault THEN "fault" ELSE GetOutcome(storeDeployment) IN
        /\ drLog' = << <<"getDeployment", outcome>> >>
        /\ drAlertRule' = None
        /\ CASE outcome = "fault" ->
                  /\ drPc' = "done" /\ drResult' = "err" /\ drDeployment' = None
             [] outcome = "notfound" ->
                  /\ drPc' = "delGet" /\ drResult' = "none" /\ drDeployment' = None
             [] OTHER ->
                  /\ drPc' = "getAlertRule" /\ drResult' = "none"
                  /\ drDeployment' = storeDeployment
    /\ UNCHANGED <<storeVars, arVars>>

\* r.Get(ctx, req.NamespacedName, deployment) and the two early returns
DRGetDeployment ==
    /\ drPc \in {"idle", "done"}
    /\ \E fault \in FaultChoices :
        LET outcome == IF fault THEN "fault" ELSE GetOutcome(storeDeployment) IN
        /\ drLog' = << <<"getDeployment", outcome>> >>
        /\ drAlertRule' = None
        /\ CASE outcome = "fault" ->
                  \* client.IgnoreNotFound(err) of an error that is not not-found
                  /\ drPc' = "done" /\ drResult' = "err" /\ drDeployment' = None
             [] outcome = "notfound" ->
                  /\ drPc' = "delGet" /\ drResult' = "none" /\ drDeployment' = None
             [] outcome = "ok" /\ storeDeployment.deleting ->
                  /\ drPc' = "done" /\ drResult' = "ok" /\ drDeployment' = None
             [] OTHER ->
                  /\ drPc' = "getAlertRule" /\ drResult' = "none"
                  /\ drDeployment' = storeDeployment
    /\ UNCHANGED <<storeVars, arVars>>

\* r.Get(ctx, {req.Namespace, alertRuleName}, alertRule) and the branch on it
DRGetAlertRule ==
    /\ drPc = "getAlertRule"
    /\ \E fault \in FaultChoices :
        LET outcome == IF fault THEN "fault" ELSE GetOutcome(storeAlertRule) IN
        /\ drLog' = Append(drLog, <<"getAlertRule", outcome>>)
        /\ CASE outcome = "fault" ->
                  /\ drPc' = "done" /\ drResult' = "err" /\ drAlertRule' = None
             [] outcome = "notfound" ->
                  /\ drPc' = "create" /\ drResult' = "none" /\ drAlertRule' = None
             [] OTHER ->
                  IF RefStale(storeAlertRule, drDeployment)
                  THEN /\ drPc' = "update" /\ drResult' = "none"
                       /\ drAlertRule' = WithDeploymentRef(storeAlertRule, drDeployment)
                  ELSE /\ drPc' = "done" /\ drResult' = "ok"
                       /\ drAlertRule' = None
    /\ drDeployment' = IF drPc' = "done" THEN None ELSE drDeployment
    /\ UNCHANGED <<storeVars, arVars>>

\* r.Create(ctx, createDefaultAlertRule(deployment, alertRuleName))
DRCreateAlertRule ==
    /\ drPc = "create"
    /\ CanCreate(AlertRuleKind) \/ storeAlertRule.exists
    /\ \E fault \in FaultChoices :
        LET outcome == IF fault THEN "fault" ELSE CreateOutcome(storeAlertRule)
            newAlertRule == createDefaultAlertRule(drDeployment,
                                                   AlertRuleName(drDeployment.name))
        IN
        /\ drLog' = Append(drLog, <<"createAlertRule", outcome>>)
        /\ drPc' = "done"
        /\ IF outcome = "ok"
           THEN /\ storeAlertRule' = Stored(newAlertRule)
                /\ created' = Allocated(AlertRuleKind)
                /\ drResult' = "ok"
           ELSE /\ UNCHANGED <<storeAlertRule, created>>
                /\ drResult' = "err"
    /\ drDeployment' = None
    /\ drAlertRule' = None
    /\ UNCHANGED <<storeOtherAlertRules, storeConfigMap, storeDeployment, storePrometheusRule, arVars>>

\* a faulty variant: the update is sent without the resourceVersion that was read,
\* so the store replaces whatever it holds
DRUpdateAlertRule_Unversioned ==
    /\ drPc = "update"
    /\ \E fault \in FaultChoices :
        LET outcome == IF fault THEN "fault"
                       ELSE IF storeAlertRule.exists THEN "ok" ELSE "notfound"
            replaced == [storeAlertRule EXCEPT !.labels = drAlertRule.labels,
                                               !.ownerReferences = drAlertRule.ownerReferences,
                                               !.spec = drAlertRule.spec]
        IN
        /\ (outcome = "ok" /\ replaced # storeAlertRule) => storeAlertRule.rv < MaxRV
        /\ drLog' = Append(drLog, <<"updateAlertRule", outcome>>)
        /\ drPc' = "done"
        /\ IF outcome = "ok"
           THEN /\ storeAlertRule' = Written(storeAlertRule, replaced)
                /\ drResult' = "ok"
           ELSE /\ UNCHANGED storeAlertRule
                /\ drResult' = "err"
    /\ drDeployment' = None
    /\ drAlertRule' = None
    /\ UNCHANGED <<storeOtherAlertRules, storeConfigMap, storeDeployment, storePrometheusRule, created, arVars>>

\* r.Update(ctx, alertRule): metadata and spec are replaced, the status is
\* kept (AlertRule has the status subresource)
DRUpdateAlertRule ==
    /\ drPc = "update"
    /\ \E fault \in FaultChoices :
        LET outcome == IF fault THEN "fault"
                       ELSE UpdateOutcome(storeAlertRule, drAlertRule)
            replaced == [storeAlertRule EXCEPT !.labels = drAlertRule.labels,
                                               !.ownerReferences = drAlertRule.ownerReferences,
                                               !.spec = drAlertRule.spec]
        IN
        /\ (outcome = "ok" /\ replaced # storeAlertRule) => storeAlertRule.rv < MaxRV
        /\ drLog' = Append(drLog, <<"updateAlertRule", outcome>>)
        /\ drPc' = "done"
        /\ IF outcome = "ok"
           THEN /\ storeAlertRule' = Written(storeAlertRule, replaced)
                /\ drResult' = "ok"
           ELSE /\ UNCHANGED storeAlertRule
                /\ drResult' = "err"
    /\ drDeployment' = None
    /\ drAlertRule' = None
    /\ UNCHANGED <<storeOtherAlertRules, storeConfigMap, storeDeployment, storePrometheusRule, created, arVars>>

\* a faulty variant: an AlertRule that is found is left alone and the run
\* returns success
DRDeleteGet_KeepsFound ==
    /\ drPc = "delGet"
    /\ \E fault \in FaultChoices :
        LET outcome == IF fault THEN "fault" ELSE GetOutcome(storeAlertRule) IN
        /\ drLog' = Append(drLog, <<"getAlertRule", outcome>>)
        /\ drPc' = "done" /\ drAlertRule' = None
        /\ drResult' = IF outcome = "fault" THEN "err" ELSE "ok"
    /\ UNCHANGED <<storeVars, drDeployment, arVars>>

\* deleteAlertRuleForDeployment: r.Get of "<deploymentName>-alert"
DRDeleteGet ==
    /\ drPc = "delGet"
    /\ \E fault \in FaultChoices :
        LET outcome == IF fault THEN "fault" ELSE GetOutcome(storeAlertRule) IN
        /\ drLog' = Append(drLog, <<"getAlertRule", outcome>>)
        /\ CASE outcome = "fault" ->
                  /\ drPc' = "done" /\ drResult' = "err" /\ drAlertRule' = None
             [] outcome = "notfound" ->
                  /\ drPc' = "done" /\ drResult' = "ok" /\ drAlertRule' = None
             [] OTHER ->
                  /\ drPc' = "delete" /\ drResult' = "none"
                  /\ drAlertRule' = storeAlertRule
    /\ UNCHANGED <<storeVars, drDeployment, arVars>>

\* a faulty variant: a not-found answer of Delete is returned as an error
DRDelete_NotFoundIsError ==
    /\ drPc = "delete"
    /\ \E fault \in FaultChoices :
        LET outcome == IF fault THEN "fault" ELSE DeleteOutcome(storeAlertRule) IN
        /\ drLog' = Append(drLog, <<"deleteAlertRule", outcome>>)
        /\ drPc' = "done"
        /\ drResult' = IF outcome = "ok" THEN "ok" ELSE "err"
        /\ storeAlertRule' = IF outcome = "ok" THEN None ELSE storeAlertRule
    /\ drDeployment' = None
    /\ drAlertRule' = None
    /\ UNCHANGED <<storeOtherAlertRules, storeConfigMap, storeDeployment, storePrometheusRule, created, arVars>>

\* a faulty variant: the Delete removes the AlertRules of that name in every
\* namespace
DRDelete_EveryNamespace ==
    /\ drPc = "delete"
    /\ \E fault \in FaultChoices :
        LET outcome == IF fault THEN "fault" ELSE DeleteOutcome(storeAlertRule) IN
        /\ drLog' = Append(drLog, <<"deleteAlertRule", outcome>>)
        /\ drPc' = "done"
        /\ drResult' = IF outcome = "fault" THEN "err" ELSE "ok"
        /\ storeAlertRule' = IF outcome = "ok" THEN None ELSE storeAlertRule
        /\ storeOtherAlertRules' =
              IF outcome = "ok"
              THEN [key \in OtherKeys |->
                       IF key[2] = AlertRuleName(ReqName) THEN None
                       ELSE storeOtherAlertRules[key]]
              ELSE storeOtherAlertRules
    /\ drDeployment' = None
    /\ drAlertRule' = None
    /\ UNCHANGED <<storeConfigMap, storeDeployment, storePrometheusRule, created, arVars>>

\* deleteAlertRuleForDeployment: r.Delete(ctx, alertRule); not-found is success
DRDelete ==
    /\ drPc = "delete"
    /\ \E fault \in FaultChoices :
        LET outcome == IF fault THEN "fault" ELSE DeleteOutcome(storeAlertRule) IN
        /\ drLog' = Append(drLog, <<"deleteAlertRule", outcome>>)
        /\ drPc' = "done"
        /\ drResult' = IF outcome = "fault" THEN "err" ELSE "ok"
        /\ storeAlertRule' = IF outcome = "ok" THEN None ELSE storeAlertRule
    /\ drDeployment' = None
    /\ drAlertRule' = None
    /\ UNCHANGED <<storeOtherAlertRules, storeConfigMap, storeDeployment, storePrometheusRule, created, arVars>>

---------------------------------------------------------------------------
(* AlertRuleReconciler (PrometheusRule backend): pure parts *)


BuiltinLabels == ("managed-by" :> "alert-rule-operator") @@ ("release" :> "monitoring")

\* buildPrometheusRule(alertRule): one rule entry; `for` and `annotations`
\* are keys of the entry only when set
buildPrometheusRule(alertRule) ==
    [ alert  |-> alertRule.spec.alert,
      expr   |-> alertRule.spec.expr,
      labels |-> Overlay("severity" :> alertRule.spec.severity, alertRule.spec.labels) ]
    @@ (IF alertRule.spec.for # "" THEN [for |-> alertRule.spec.for] ELSE EmptyMap)
    @@ (IF alertRule.spec.annotations # Nil
        THEN [annotations |-> alertRule.spec.annotations] ELSE EmptyMap)

\* createPrometheusRule(alertRule): the rendered PrometheusRule, without UID
\* and resourceVersion
createPrometheusRule(alertRule) ==
    [ name       |-> alertRule.name,
      namespace  |-> alertRule.namespace,
      apiVersion |-> PrometheusRuleAPIVersion,
      kind       |-> PrometheusRuleKind,
      labels     |-> Overlay(BuiltinLabels, alertRule.labels),
      ownerReferences |->
          << [ apiVersion |-> alertRule.apiVersion,
               kind       |-> alertRule.kind,
               name       |-> alertRule.name,
               uid        |-> alertRule.uid,
               controller |-> TRUE,
               blockOwnerDeletion |-> FALSE ] >>,
      spec |-> [ groups |->
          << [ name  |-> alertRule.name \o "-group",
               rules |-> << buildPrometheusRule(alertRule) >> ] >> ] ]

ReadyType == "PrometheusRuleReady"

\* a faulty variant: not-found is reported like any other error
ReadyCondition_NotFoundAsError(outcome) ==
    CASE outcome = "ok" ->
            [ type |-> ReadyType, status |-> "True",
              reason |-> "PrometheusRuleCreated",
              message |-> "PrometheusRule has been successfully created" ]
      [] OTHER ->
            [ type |-> ReadyType, status |-> "Unknown",
              reason |-> "Error",
              message |-> "Error checking PrometheusRule: " \o outcome ]

\* updateStatus: the condition built from the outcome of the re-fetch
ReadyCondition(outcome) ==
    CASE outcome = "ok" ->
            [ type |-> ReadyType, status |-> "True",
              reason |-> "PrometheusRuleCreated",
              message |-> "PrometheusRule has been successfully created" ]
      [] outcome = "notfound" ->
            [ type |-> ReadyType, status |-> "False",
              reason |-> "PrometheusRuleNotFound",
              message |-> "PrometheusRule not found" ]
      [] OTHER ->
            [ type |-> ReadyType, status |-> "Unknown",
              reason |-> "Error",
              message |-> "Error checking PrometheusRule: " \o outcome ]

\* a faulty variant: the condition is appended without looking for its type
UpsertCondition_AlwaysAppend(conditions, condition) ==
    Append(conditions, condition)

\* updateStatus: replace the first condition of the same type, else append
UpsertCondition(conditions, condition) ==
    IF \E i \in 1..Len(conditions) : conditions[i].type = condition.type
    THEN LET i == CHOOSE k \in 1..Len(conditions) :
                     /\ conditions[k].type = condition.type
                     /\ \A j \in 1..(k - 1) : conditions[j].type # condition.type
         IN [conditions EXCEPT ![i] = condition]
    ELSE Append(conditions, condition)

\* a faulty variant: the condition list is replaced by the one condition
updateStatus_SingleCondition(alertRule, condition) ==
    [alertRule EXCEPT !.conditions = << condition >>]

\* updateStatus(ctx, alertRule, condition) of the ConfigMap backend, up to
\* the store call: the condition is upserted into alertRule.Status.Conditions
updateStatus(alertRule, condition) ==
    [alertRule EXCEPT !.conditions = UpsertCondition(@, condition)]

---------------------------------------------------------------------------
(* AlertRuleReconciler.Reconcile, one action per store call *)

\* r.Get(ctx, req.NamespacedName, alertRule) and the two early returns
ARGetAlertRule ==
    /\ arPc \in {"idle", "done"}
    /\ \E fault \in FaultChoices :
        LET outcome == IF fault THEN "fault" ELSE GetOutcome(storeAlertRule) IN
        /\ arLog' = << <<"getAlertRule", outcome>> >>
        /\ arExistingRule' = None
        /\ CASE outcome = "fault" ->
                  /\ arPc' = "done" /\ arResult' = "err" /\ arAlertRule' = None
             [] outcome = "notfound" ->
                  /\ arPc' = "delGet" /\ arResult' = "none" /\ arAlertRule' = None
             [] outcome = "ok" /\ storeAlertRule.deleting ->
                  /\ arPc' = "done" /\ arResult' = "ok" /\ arAlertRule' = None
             [] OTHER ->
                  /\ arPc' = "getRule" /\ arResult' = "none"
                  /\ arAlertRule' = storeAlertRule
    /\ UNCHANGED <<storeVars, drVars>>

\* a faulty variant: whatever the Get finds, the run goes on to Create
ARGetPrometheusRule_AlwaysCreate ==
    /\ arPc = "getRule"
    /\ \E fault \in FaultChoices :
        LET outcome == IF fault THEN "fault" ELSE GetOutcome(storePrometheusRule) IN
        /\ arLog' = Append(arLog, <<"getPrometheusRule", outcome>>)
        /\ IF outcome = "fault"
           THEN arPc' = "done" /\ arResult' = "err"
           ELSE arPc' = "create" /\ arResult' = "none"
    /\ arExistingRule' = None
    /\ arAlertRule' = IF arPc' = "done" THEN None ELSE arAlertRule
    /\ UNCHANGED <<storeVars, drVars>>

\* reconcilePrometheusRule: r.Get of the existing PrometheusRule
ARGetPrometheusRule ==
    /\ arPc = "getRule"
    /\ \E fault \in FaultChoices :
        LET outcome == IF fault THEN "fault" ELSE GetOutcome(storePrometheusRule) IN
        /\ arLog' = Append(arLog, <<"getPrometheusRule", outcome>>)
        /\ CASE outcome = "fault" ->
                  /\ arPc' = "done" /\ arResult' = "err" /\ arExistingRule' = None
             [] outcome = "notfound" ->
                  /\ arPc' = "create" /\ arResult' = "none" /\ arExistingRule' = None
             [] OTHER ->
                  /\ arPc' = "update" /\ arResult' = "none"
                  /\ arExistingRule' = storePrometheusRule
    /\ arAlertRule' = IF arPc' = "done" THEN None ELSE arAlertRule
    /\ UNCHANGED <<storeVars, drVars>>

\* a faulty variant: the error of Create is only logged and the run goes on
\* to updateStatus
ARCreatePrometheusRule_ErrorLogged ==
    /\ arPc = "create"
    /\ CanCreate(PrometheusRuleKind) \/ storePrometheusRule.exists
    /\ \E fault \in FaultChoices :
        LET outcome == IF fault THEN "fault" ELSE CreateOutcome(storePrometheusRule)
            prometheusRule == createPrometheusRule(arAlertRule)
        IN
        /\ arLog' = Append(arLog, <<"createPrometheusRule", outcome>>)
        /\ IF outcome = "ok"
           THEN /\ storePrometheusRule' = Stored(prometheusRule)
                /\ created' = Allocated(PrometheusRuleKind)
           ELSE UNCHANGED <<storePrometheusRule, created>>
    /\ arPc' = "refetch" /\ arResult' = "none"
    /\ arExistingRule' = None
    /\ UNCHANGED <<storeOtherAlertRules, storeConfigMap, storeDeployment, storeAlertRule, arAlertRule, drVars>>

\* reconcilePrometheusRule: r.Create(ctx, createPrometheusRule(alertRule))
ARCreatePrometheusRule ==
    /\ arPc = "create"
    /\ CanCreate(PrometheusRuleKind) \/ storePrometheusRule.exists
    /\ \E fault \in FaultChoices :
        LET outcome == IF fault THEN "fault" ELSE CreateOutcome(storePrometheusRule)
            prometheusRule == createPrometheusRule(arAlertRule)
        IN
        /\ arLog' = Append(arLog, <<"createPrometheusRule", outcome>>)
        /\ IF outcome = "ok"
           THEN /\ storePrometheusRule' = Stored(prometheusRule)
                /\ created' = Allocated(PrometheusRuleKind)
                /\ arPc' = "refetch" /\ arResult' = "none"
           ELSE /\ UNCHANGED <<storePrometheusRule, created>>
                /\ arPc' = "done" /\ arResult' = "err"
    /\ arAlertRule' = IF arPc' = "done" THEN None ELSE arAlertRule
    /\ arExistingRule' = None
    /\ UNCHANGED <<storeOtherAlertRules, storeConfigMap, storeDeployment, storeAlertRule, drVars>>

\* a faulty variant: the render is sent without the version of existingRule
PrepareUpdate_NoVersion(prometheusRule, existingRule) ==
    prometheusRule @@ [uid |-> existingRule.uid, rv |-> 0]

\* the object reconcilePrometheusRule hands to r.Update: the fresh render
\* carrying the UID and resourceVersion of existingRule
PrepareUpdate(prometheusRule, existingRule) ==
    prometheusRule @@ [uid |-> existingRule.uid, rv |-> existingRule.rv]

\* a faulty variant: the update adds the rendered group to the groups the
\* PrometheusRule already has instead of replacing them
ARUpdatePrometheusRule_Appending ==
    /\ arPc = "update"
    /\ \E fault \in FaultChoices :
        LET prometheusRule == PrepareUpdate(createPrometheusRule(arAlertRule),
                                            arExistingRule)
            outcome == IF fault THEN "fault"
                       ELSE UpdateOutcome(storePrometheusRule, prometheusRule)
            replaced == [prometheusRule EXCEPT
                            !.spec.groups = arExistingRule.spec.groups \o @]
                        @@ [exists |-> TRUE, deleting |-> storePrometheusRule.deleting]
        IN
        /\ (outcome = "ok" /\ replaced # storePrometheusRule)
              => storePrometheusRule.rv < MaxRV
        /\ arLog' = Append(arLog, <<"updatePrometheusRule", outcome>>)
        /\ IF outcome = "ok"
           THEN /\ storePrometheusRule' = Written(storePrometheusRule, replaced)
                /\ arPc' = "refetch" /\ arResult' = "none"
           ELSE /\ UNCHANGED storePrometheusRule
                /\ arPc' = "done" /\ arResult' = "err"
    /\ arAlertRule' = IF arPc' = "done" THEN None ELSE arAlertRule
    /\ arExistingRule' = None
    /\ UNCHANGED <<storeOtherAlertRules, storeConfigMap, storeDeployment, storeAlertRule, created, drVars>>

\* reconcilePrometheusRule: r.Update(ctx, prometheusRule), a full replace
ARUpdatePrometheusRule ==
    /\ arPc = "update"
    /\ \E fault \in FaultChoices :
        LET prometheusRule == PrepareUpdate(createPrometheusRule(arAlertRule),
                                            arExistingRule)
            outcome == IF fault THEN "fault"
                       ELSE UpdateOutcome(storePrometheusRule, prometheusRule)
            replaced == prometheusRule
                        @@ [exists |-> TRUE, deleting |-> storePrometheusRule.deleting]
        IN
        /\ (outcome = "ok" /\ replaced # storePrometheusRule)
              => storePrometheusRule.rv < MaxRV
        /\ arLog' = Append(arLog, <<"updatePrometheusRule", outcome>>)
        /\ IF outcome = "ok"
           THEN /\ storePrometheusRule' = Written(storePrometheusRule, replaced)
                /\ arPc' = "refetch" /\ arResult' = "none"
           ELSE /\ UNCHANGED storePrometheusRule
                /\ arPc' = "done" /\ arResult' = "err"
    /\ arAlertRule' = IF arPc' = "done" THEN None ELSE arAlertRule
    /\ arExistingRule' = None
    /\ UNCHANGED <<storeOtherAlertRules, storeConfigMap, storeDeployment, storeAlertRule, created, drVars>>

\* updateStatus: r.Get of the PrometheusRule, then the condition is upserted
\* into the local alertRule.Status.Conditions
ARRefetch ==
    /\ arPc = "refetch"
    /\ \E fault \in FaultChoices :
        LET outcome == IF fault THEN "fault" ELSE GetOutcome(storePrometheusRule) IN
        /\ arLog' = Append(arLog, <<"refetchPrometheusRule", outcome>>)
        /\ arAlertRule' = updateStatus(arAlertRule, ReadyCondition(outcome))
        /\ arPc' = "status"
    /\ UNCHANGED <<storeVars, arExistingRule, arResult, drVars>>

\* a faulty variant: the status is not written and Reconcile returns nil
ARStatusUpdate_Dropped ==
    /\ arPc = "status"
    /\ arLog' = Append(arLog, <<"updateStatus", "ok">>)
    /\ arPc' = "done"
    /\ arResult' = "ok"
    /\ arAlertRule' = None
    /\ UNCHANGED <<storeVars, arExistingRule, drVars>>

\* a faulty variant: the whole local AlertRule is written with a plain
\* Update that overrides the stored version
ARStatusUpdate_WholeObject ==
    /\ arPc = "status"
    /\ \E fault \in FaultChoices :
        LET outcome == IF fault THEN "fault"
                       ELSE IF storeAlertRule.exists THEN "ok" ELSE "notfound"
            replaced == [arAlertRule EXCEPT !.rv = storeAlertRule.rv]
        IN
        /\ (outcome = "ok" /\ replaced # storeAlertRule) => storeAlertRule.rv < MaxRV
        /\ arLog' = Append(arLog, <<"updateStatus", outcome>>)
        /\ arPc' = "done"
        /\ IF outcome = "ok"
           THEN /\ storeAlertRule' = Written(storeAlertRule, replaced)
                /\ arResult' = "ok"
           ELSE /\ UNCHANGED storeAlertRule
                /\ arResult' = "err"
    /\ arAlertRule' = None
    /\ UNCHANGED <<storeOtherAlertRules, storeConfigMap, storeDeployment, storePrometheusRule, created,
                   arExistingRule, drVars>>

\* updateStatus: r.Status().Update(ctx, alertRule); Reconcile returns its error
ARStatusUpdate ==
    /\ arPc = "status"
    /\ \E fault \in FaultChoices :
        LET outcome == IF fault THEN "fault"
                       ELSE UpdateOutcome(storeAlertRule, arAlertRule)
            replaced == [storeAlertRule EXCEPT !.conditions = arAlertRule.conditions]
        IN
        /\ (outcome = "ok" /\ replaced # storeAlertRule) => storeAlertRule.rv < MaxRV
        /\ arLog' = Append(arLog, <<"updateStatus", outcome>>)
        /\ arPc' = "done"
        /\ IF outcome = "ok"
           THEN /\ storeAlertRule' = Written(storeAlertRule, replaced)
                /\ arResult' = "ok"
           ELSE /\ UNCHANGED storeAlertRule
                /\ arResult' = "err"
    /\ arAlertRule' = None
    /\ UNCHANGED <<storeOtherAlertRules, storeConfigMap, storeDeployment, storePrometheusRule, created,
                   arExistingRule, drVars>>

\* deletePrometheusRule: r.Get of the PrometheusRule named like the AlertRule
ARDeleteGet ==
    /\ arPc = "delGet"
    /\ \E fault \in FaultChoices :
        LET outcome == IF fault THEN "fault" ELSE GetOutcome(storePrometheusRule) IN
        /\ arLog' = Append(arLog, <<"getPrometheusRule", outcome>>)
        /\ CASE outcome = "fault" ->
                  /\ arPc' = "done" /\ arResult' = "err" /\ arExistingRule' = None
             [] outcome = "notfound" ->
                  /\ arPc' = "done" /\ arResult' = "ok" /\ arExistingRule' = None
             [] OTHER ->
                  /\ arPc' = "delete" /\ arResult' = "none"
                  /\ arExistingRule' = storePrometheusRule
    /\ UNCHANGED <<storeVars, arAlertRule, drVars>>

\* a faulty variant: a not-found answer of Delete is returned as an error
ARDelete_NotFoundIsError ==
    /\ arPc = "delete"
    /\ \E fault \in FaultChoices :
        LET outcome == IF fault THEN "fault" ELSE DeleteOutcome(storePrometheusRule) IN
        /\ arLog' = Append(arLog, <<"deletePrometheusRule", outcome>>)
        /\ arPc' = "done"
        /\ arResult' = IF outcome = "ok" THEN "ok" ELSE "err"
        /\ storePrometheusRule' = IF outcome = "ok" THEN None ELSE storePrometheusRule
    /\ arExistingRule' = None
    /\ UNCHANGED <<storeOtherAlertRules, storeConfigMap, storeDeployment, storeAlertRule, created, arAlertRule, drVars>>

\* deletePrometheusRule: r.Delete(ctx, prometheusRule); not-found is success
ARDelete ==
    /\ arPc = "delete"
    /\ \E fault \in FaultChoices :
        LET outcome == IF fault THEN "fault" ELSE DeleteOutcome(storePrometheusRule) IN
        /\ arLog' = Append(arLog, <<"deletePrometheusRule", outcome>>)
        /\ arPc' = "done"
        /\ arResult' = IF outcome = "fault" THEN "err" ELSE "ok"
        /\ storePrometheusRule' = IF outcome = "ok" THEN None ELSE storePrometheusRule
    /\ arExistingRule' = None
    /\ UNCHANGED <<storeOtherAlertRules, storeConfigMap, storeDeployment, storeAlertRule, created, arAlertRule, drVars>>

---------------------------------------------------------------------------
(* AlertRuleReconciler, ConfigMap backend (src/unnamed/part_001): the same
   reconciler built to keep the rules as a text blob in a ConfigMap.  Its
   AlertRule spec is the list shape {targetDeployment, rules[]}.  It runs in
   place of the PrometheusRule backend and uses the same locals. *)

RECURSIVE JoinWith(_, _)
\* strings.Join(lines, sep)
JoinWith(lines, sep) ==
    IF Len(lines) = 0 THEN ""
    ELSE IF Len(lines) = 1 THEN lines[1]
    ELSE lines[1] \o sep \o JoinWith(Tail(lines), sep)

RECURSIVE NotificationLines(_)
\* generateAlertRulesYAML: the annotation lines of the notification channels
NotificationLines(notifications) ==
    IF Len(notifications) = 0 THEN << >>
    ELSE (IF notifications[1].discord # ""
          THEN << "    discord: \"" \o notifications[1].discord \o "\"" >>
          ELSE << >>)
         \o (IF notifications[1].email # ""
             THEN << "    email: \"" \o notifications[1].email \o "\"" >>
             ELSE << >>)
         \o NotificationLines(Tail(notifications))

\* generateAlertRulesYAML: the text of one rule
RuleYAML(rule, targetDeployment) ==
    LET annotations == << "    summary: \"" \o rule.name \o "\"",
                          "    severity: \"" \o rule.severity \o "\"" >>
                       \o NotificationLines(rule.notifications)
        labels == << "    alertname: \"" \o rule.name \o "\"",
                     "    severity: \"" \o rule.severity \o "\"",
                     "    deployment: \"" \o targetDeployment \o "\"" >>
    IN "- alert: " \o rule.name
       \o "\n  expr: " \o rule.condition
       \o "\n  for: " \o rule.duration
       \o "\n  labels:\n" \o JoinWith(labels, "\n")
       \o "\n  annotations:\n" \o JoinWith(annotations, "\n")
       \o "\n"

\* generateAlertRulesYAML(alertRule): the document and the error, which is
\* nil on every path
generateAlertRulesYAML(alertRule) ==
    [ yaml |-> "groups:\n- name: " \o alertRule.name \o "\n  rules:\n"
               \o JoinWith([i \in 1..Len(alertRule.spec.rules) |->
                               RuleYAML(alertRule.spec.rules[i],
                                        alertRule.spec.targetDeployment)], ""),
      err  |-> Nil ]

\* fmt.Sprintf("alertrule-%s", alertRule.Name)
ConfigMapName(alertRuleName) == "alertrule-" \o alertRuleName

\* the ConfigMap Reconcile builds from the AlertRule and the generated text
ConfigMapFor(alertRule, alertRulesYAML) ==
    [ name       |-> ConfigMapName(alertRule.name),
      namespace  |-> alertRule.namespace,
      apiVersion |-> ConfigMapAPIVersion,
      kind       |-> ConfigMapKind,
      labels     |-> ("app.kubernetes.io/name" :> "k8s-alert-rule-operator")
                     @@ ("app.kubernetes.io/managed-by" :> "alertrule-controller")
                     @@ ("alertrule.monitoring.my.domain" :> alertRule.name),
      ownerReferences |->
          << [ apiVersion |-> alertRule.apiVersion,
               kind       |-> alertRule.kind,
               name       |-> alertRule.name,
               uid        |-> alertRule.uid,
               controller |-> TRUE,
               blockOwnerDeletion |-> FALSE ] >>,
      data |-> ("alertrules.yaml" :> alertRulesYAML) ]

\* the conditions Reconcile hands to updateStatus
ProgressingCondition ==
    [ type |-> "Progressing", status |-> "True", reason |-> "Reconciling",
      message |-> "Reconciling AlertRule" ]

DegradedCondition(reason) ==
    [ type |-> "Degraded", status |-> "True", reason |-> reason,
      message |-> CASE reason = "GenerationFailed" -> "Failed to generate alert rules"
                    [] reason = "ConfigMapCreationFailed" -> "Failed to create ConfigMap"
                    [] OTHER -> "Failed to update ConfigMap" ]

AvailableCondition(configMapName) ==
    [ type |-> "Available", status |-> "True", reason |-> "Reconciled",
      message |-> "AlertRule reconciled successfully. ConfigMap: " \o configMapName ]

\* r.Get(ctx, req.NamespacedName, alertRule): not-found returns nil, any
\* other error is returned; nothing else is looked at before the first
\* status write
CMGetAlertRule ==
    /\ arPc \in {"idle", "done"}
    /\ \E fault \in FaultChoices :
        LET outcome == IF fault THEN "fault" ELSE GetOutcome(storeAlertRule) IN
        /\ arLog' = << <<"getAlertRule", outcome>> >>
        /\ arExistingRule' = None
        /\ CASE outcome = "fault" ->
                  /\ arPc' = "done" /\ arResult' = "err" /\ arAlertRule' = None
             [] outcome = "notfound" ->
                  /\ arPc' = "done" /\ arResult' = "ok" /\ arAlertRule' = None
             [] OTHER ->
                  /\ arPc' = "progressing" /\ arResult' = "none"
                  /\ arAlertRule' = storeAlertRule
    /\ UNCHANGED <<storeVars, drVars>>

\* updateStatus(ctx, alertRule, condition): the upsert into the local
\* AlertRule and r.Status().Update, which on success leaves the stored
\* version in the local object; then the run goes on at okPc or returns
CMUpdateStatus(call, condition, okPc, okResult) ==
    \E fault \in FaultChoices :
        LET local == updateStatus(arAlertRule, condition)
            outcome == IF fault THEN "fault"
                       ELSE UpdateOutcome(storeAlertRule, local)
            replaced == [storeAlertRule EXCEPT !.conditions = local.conditions]
        IN
        /\ (outcome = "ok" /\ replaced # storeAlertRule) => storeAlertRule.rv < MaxStatusRV
        /\ arLog' = Append(arLog, <<call, outcome>>)
        /\ IF outcome = "ok"
           THEN /\ storeAlertRule' = Written(storeAlertRule, replaced)
                /\ arPc' = okPc /\ arResult' = okResult
                /\ arAlertRule' = IF okPc = "done" THEN None
                                  ELSE [local EXCEPT !.rv = storeAlertRule'.rv]
           ELSE /\ UNCHANGED storeAlertRule
                /\ arPc' = "done" /\ arResult' = "err"
                /\ arAlertRule' = None

\* the Progressing status write, then generateAlertRulesYAML and the branch
\* on its error
CMStatusProgressing ==
    /\ arPc = "progressing"
    /\ CMUpdateStatus("statusProgressing", ProgressingCondition,
                      IF generateAlertRulesYAML(arAlertRule).err # Nil
                      THEN "degradedGeneration" ELSE "getConfigMap",
                      "none")
    /\ UNCHANGED <<storeOtherAlertRules, storeDeployment, storePrometheusRule, storeConfigMap, created,
                   arExistingRule, drVars>>

\* r.Get of the ConfigMap and the three-way branch on its error
CMGetConfigMap ==
    /\ arPc = "getConfigMap"
    /\ \E fault \in FaultChoices :
        LET outcome == IF fault THEN "fault" ELSE GetOutcome(storeConfigMap) IN
        /\ arLog' = Append(arLog, <<"getConfigMap", outcome>>)
        /\ CASE outcome = "fault" ->
                  /\ arPc' = "done" /\ arResult' = "err"
                  /\ arExistingRule' = None /\ arAlertRule' = None
             [] outcome = "notfound" ->
                  /\ arPc' = "createConfigMap" /\ arResult' = "none"
                  /\ arExistingRule' = None /\ arAlertRule' = arAlertRule
             [] OTHER ->
                  /\ arPc' = "updateConfigMap" /\ arResult' = "none"
                  /\ arExistingRule' = storeConfigMap /\ arAlertRule' = arAlertRule
    /\ UNCHANGED <<storeVars, drVars>>

\* r.Create(ctx, configMap); a failure leads to the Degraded status write
CMCreateConfigMap ==
    /\ arPc = "createConfigMap"
    /\ CanCreate(ConfigMapKind) \/ storeConfigMap.exists
    /\ \E fault \in FaultChoices :
        LET outcome == IF fault THEN "fault" ELSE CreateOutcome(storeConfigMap)
            configMap == ConfigMapFor(arAlertRule,
                                      generateAlertRulesYAML(arAlertRule).yaml)
        IN
        /\ arLog' = Append(arLog, <<"createConfigMap", outcome>>)
        /\ IF outcome = "ok"
           THEN /\ storeConfigMap' = Stored(configMap)
                /\ created' = Allocated(ConfigMapKind)
                /\ arPc' = "available"
           ELSE /\ UNCHANGED <<storeConfigMap, created>>
                /\ arPc' = "degradedCreate"
    /\ arResult' = "none"
    /\ UNCHANGED <<storeOtherAlertRules, storeDeployment, storeAlertRule, storePrometheusRule,
                   arAlertRule, arExistingRule, drVars>>

\* existingConfigMap.Data and .Labels are replaced and r.Update is called;
\* a failure leads to the Degraded status write
CMUpdateConfigMap ==
    /\ arPc = "updateConfigMap"
    /\ \E fault \in FaultChoices :
        LET configMap == ConfigMapFor(arAlertRule,
                                      generateAlertRulesYAML(arAlertRule).yaml)
            sent == [arExistingRule EXCEPT !.data = configMap.data,
                                           !.labels = configMap.labels]
            outcome == IF fault THEN "fault"
                       ELSE UpdateOutcome(storeConfigMap, sent)
        IN
        /\ (outcome = "ok" /\ sent # storeConfigMap) => storeConfigMap.rv < MaxRV
        /\ arLog' = Append(arLog, <<"updateConfigMap", outcome>>)
        /\ IF outcome = "ok"
           THEN /\ storeConfigMap' = Written(storeConfigMap, sent)
                /\ arPc' = "available"
           ELSE /\ UNCHANGED storeConfigMap
                /\ arPc' = "degradedUpdate"
    /\ arResult' = "none"
    /\ arExistingRule' = None
    /\ UNCHANGED <<storeOtherAlertRules, storeDeployment, storeAlertRule, storePrometheusRule, created,
                   arAlertRule, drVars>>

\* the Degraded status write of the three failure branches; its own error
\* is only logged and Reconcile returns the error that led here
CMStatusDegraded ==
    /\ arPc \in {"degradedGeneration", "degradedCreate", "degradedUpdate"}
    /\ \E fault \in FaultChoices :
        LET reason == CASE arPc = "degradedGeneration" -> "GenerationFailed"
                        [] arPc = "degradedCreate" -> "ConfigMapCreationFailed"
                        [] OTHER -> "ConfigMapUpdateFailed"
            local == updateStatus(arAlertRule, DegradedCondition(reason))
            outcome == IF fault THEN "fault"
                       ELSE UpdateOutcome(storeAlertRule, local)
            replaced == [storeAlertRule EXCEPT !.conditions = local.conditions]
        IN
        /\ (outcome = "ok" /\ replaced # storeAlertRule) => storeAlertRule.rv < MaxStatusRV
        /\ arLog' = Append(arLog, <<"statusDegraded", outcome>>)
        /\ storeAlertRule' = IF outcome = "ok" THEN Written(storeAlertRule, replaced)
                             ELSE storeAlertRule
    /\ arPc' = "done" /\ arResult' = "err"
    /\ arAlertRule' = None
    /\ UNCHANGED <<storeOtherAlertRules, storeDeployment, storePrometheusRule, storeConfigMap, created,
                   arExistingRule, drVars>>

\* the Available status write; Reconcile returns its error
CMStatusAvailable ==
    /\ arPc = "available"
    /\ CMUpdateStatus("statusAvailable",
                      AvailableCondition(ConfigMapName(arAlertRule.name)),
                      "done", "ok")
    /\ UNCHANGED <<storeOtherAlertRules, storeDeployment, storePrometheusRule, storeConfigMap, created,
                   arExistingRule, drVars>>

---------------------------------------------------------------------------
(* The environment: users, the workload's owner, other writers *)

\* AlertRules a user may declare (metadata labels and spec)
UserAlertRules ==
    { [ labels |-> ("managed-by" :> "custom"),
        spec   |-> [ alert |-> "HighLatency", expr |-> "latency_seconds > 1",
                     for |-> "", severity |-> "",
                     labels |-> EmptyMap, annotations |-> Nil,
                     deploymentRef |-> Nil ] ],
      [ labels |-> ("team" :> "payments"),
        spec   |-> [ alert |-> "HighLatency", expr |-> "latency_seconds > 2",
                     for |-> "5m", severity |-> "warning",
                     labels |-> ("team" :> "payments"),
                     annotations |-> ("summary" :> "Latency is high"),
                     deploymentRef |-> [ namespace |-> OtherNamespace,
                                         name |-> ReqName ] ] ],
      [ labels |-> EmptyMap,
        spec   |-> [ alert |-> "ErrorRate", expr |-> "error_rate > 0.05",
                     for |-> "10m", severity |-> "info",
                     labels |-> ("severity" :> "page"),
                     annotations |-> EmptyMap,
                     deploymentRef |-> [ namespace |-> ReqNamespace,
                                         name |-> ReqName ] ] ] }

\* the Deployment req.NamespacedName names is created
DeploymentCreated ==
    /\ ~storeDeployment.exists
    /\ CanCreate(DeploymentKind)
    /\ storeDeployment' = Stored([ name |-> ReqName, namespace |-> ReqNamespace,
                                   apiVersion |-> DeploymentAPIVersion,
                                   kind |-> DeploymentKind ])
    /\ created' = Allocated(DeploymentKind)
    /\ UNCHANGED <<storeOtherAlertRules, storeConfigMap, storeAlertRule, storePrometheusRule, drVars, arVars>>

\* the Deployment gets its deletion timestamp (it still exists)
DeploymentMarkedForDeletion ==
    /\ storeDeployment.exists /\ ~storeDeployment.deleting
    /\ storeDeployment' = [storeDeployment EXCEPT !.deleting = TRUE]
    /\ UNCHANGED <<storeOtherAlertRules, storeConfigMap, storeAlertRule, storePrometheusRule, created, drVars, arVars>>

\* the Deployment is gone from the store
DeploymentRemoved ==
    /\ storeDeployment.exists
    /\ storeDeployment' = None
    /\ UNCHANGED <<storeOtherAlertRules, storeConfigMap, storeAlertRule, storePrometheusRule, created, drVars, arVars>>

\* a user creates the AlertRule "<deployment>-alert" by hand
UserCreatesAlertRule ==
    /\ ~storeAlertRule.exists
    /\ CanCreate(AlertRuleKind)
    /\ \E u \in UserAlertRules :
        storeAlertRule' =
            Stored([ name |-> AlertRuleName(ReqName), namespace |-> ReqNamespace,
                     apiVersion |-> AlertRuleAPIVersion, kind |-> AlertRuleKind,
                     labels |-> u.labels, ownerReferences |-> << >>,
                     spec |-> u.spec, conditions |-> << >> ])
    /\ created' = Allocated(AlertRuleKind)
    /\ UNCHANGED <<storeOtherAlertRules, storeConfigMap, storeDeployment, storePrometheusRule, drVars, arVars>>

\* a user edits labels and spec of the AlertRule
UserEditsAlertRule ==
    /\ storeAlertRule.exists
    /\ storeAlertRule.rv < MaxRV
    /\ \E u \in UserAlertRules :
        /\ (u.labels # storeAlertRule.labels \/ u.spec # storeAlertRule.spec)
        /\ storeAlertRule' = [storeAlertRule EXCEPT !.labels = u.labels,
                                                    !.spec = u.spec,
                                                    !.rv = @ + 1]
    /\ UNCHANGED <<storeOtherAlertRules, storeConfigMap, storeDeployment, storePrometheusRule, created, drVars, arVars>>

\* the AlertRule gets its deletion timestamp (it still exists)
AlertRuleMarkedForDeletion ==
    /\ storeAlertRule.exists /\ ~storeAlertRule.deleting
    /\ storeAlertRule.rv < MaxRV
    /\ storeAlertRule' = [storeAlertRule EXCEPT !.deleting = TRUE, !.rv = @ + 1]
    /\ UNCHANGED <<storeOtherAlertRules, storeConfigMap, storeDeployment, storePrometheusRule, created, drVars, arVars>>

\* the AlertRule is removed by a user or by the garbage collector
AlertRuleRemoved ==
    /\ storeAlertRule.exists
    /\ storeAlertRule' = None
    /\ UNCHANGED <<storeOtherAlertRules, storeConfigMap, storeDeployment, storePrometheusRule, created, drVars, arVars>>

\* another controller writes a condition of its own type into the status
OtherStatusWriter ==
    /\ storeAlertRule.exists
    /\ storeAlertRule.rv < MaxRV
    /\ \A i \in 1..Len(storeAlertRule.conditions) :
           storeAlertRule.conditions[i].type # "Available"
    /\ storeAlertRule' =
           [storeAlertRule EXCEPT
               !.conditions = Append(@, [ type |-> "Available", status |-> "True",
                                          reason |-> "Reconciled",
                                          message |-> "AlertRule reconciled" ]),
               !.rv = @ + 1]
    /\ UNCHANGED <<storeOtherAlertRules, storeConfigMap, storeDeployment, storePrometheusRule, created, drVars, arVars>>

\* another writer puts a label of its own on the PrometheusRule
OtherWriterEditsPrometheusRule ==
    /\ storePrometheusRule.exists
    /\ storePrometheusRule.rv < MaxRV
    /\ "edited-by" \notin DOMAIN storePrometheusRule.labels
    /\ storePrometheusRule' =
           [storePrometheusRule EXCEPT !.labels = Overlay(@, "edited-by" :> "someone"),
                                       !.rv = @ + 1]
    /\ UNCHANGED <<storeOtherAlertRules, storeConfigMap, storeDeployment, storeAlertRule, created, drVars, arVars>>

\* the PrometheusRule is removed by another actor or by the garbage collector
PrometheusRuleRemoved ==
    /\ storePrometheusRule.exists
    /\ storePrometheusRule' = None
    /\ UNCHANGED <<storeOtherAlertRules, storeConfigMap, storeDeployment, storeAlertRule, created, drVars, arVars>>

---------------------------------------------------------------------------
(* Specification *)

Init ==
    /\ storeDeployment = None
    /\ storeAlertRule = None
    /\ storePrometheusRule = None
    /\ storeConfigMap = None
    /\ storeOtherAlertRules = [key \in OtherKeys |-> None]
    /\ created = [k \in {DeploymentKind, AlertRuleKind, PrometheusRuleKind, ConfigMapKind} |-> 0]
    /\ drPc = "idle" /\ drDeployment = None /\ drAlertRule = None
    /\ drResult = "none" /\ drLog = << >>
    /\ arPc = "idle" /\ arAlertRule = None /\ arExistingRule = None
    /\ arResult = "none" /\ arLog = << >>

\* both reconcilers and the environment, interleaved at every store call
Next ==
    \/ DRGetDeployment \/ DRGetAlertRule \/ DRCreateAlertRule \/ DRUpdateAlertRule
    \/ DRDeleteGet \/ DRDelete
    \/ ARGetAlertRule \/ ARGetPrometheusRule \/ ARCreatePrometheusRule
    \/ ARUpdatePrometheusRule \/ ARRefetch \/ ARStatusUpdate
    \/ ARDeleteGet \/ ARDelete
    \/ DeploymentCreated \/ DeploymentMarkedForDeletion \/ DeploymentRemoved
    \/ UserCreatesAlertRule \/ UserEditsAlertRule
    \/ AlertRuleMarkedForDeletion \/ AlertRuleRemoved
    \/ OtherWriterEditsPrometheusRule \/ PrometheusRuleRemoved

Spec == Init /\ [][Next]_vars

\* DeploymentReconciler against the owner of the workload and the users of
\* the AlertRule
NextDR ==
    \/ DRGetDeployment \/ DRGetAlertRule \/ DRCreateAlertRule \/ DRUpdateAlertRule
    \/ DRDeleteGet \/ DRDelete
    \/ DeploymentCreated \/ DeploymentMarkedForDeletion \/ DeploymentRemoved
    \/ UserCreatesAlertRule \/ UserEditsAlertRule
    \/ AlertRuleMarkedForDeletion \/ AlertRuleRemoved

SpecDR == Init /\ [][NextDR]_vars

\* AlertRuleReconciler against the writers of the AlertRule and of the
\* PrometheusRule
NextAR ==
    \/ ARGetAlertRule \/ ARGetPrometheusRule \/ ARCreatePrometheusRule
    \/ ARUpdatePrometheusRule \/ ARRefetch \/ ARStatusUpdate
    \/ ARDeleteGet \/ ARDelete
    \/ UserCreatesAlertRule \/ UserEditsAlertRule
    \/ AlertRuleMarkedForDeletion \/ AlertRuleRemoved \/ OtherStatusWriter
    \/ OtherWriterEditsPrometheusRule \/ PrometheusRuleRemoved

SpecAR == Init /\ [][NextAR]_vars

---------------------------------------------------------------------------
(* updateStatus alone: condition lists and the conditions upserted into
   them are drawn from bounded sets *)

\* the conditions the two backends hand to updateStatus, with both values
\* of the status for the types of the ConfigMap backend
ConditionInputs ==
    { ReadyCondition(outcome) : outcome \in {"ok", "notfound", "fault"} }
    \cup { [ type |-> t, status |-> st, reason |-> r, message |-> r ] :
             t \in {"Progressing", "Degraded", "Available"},
             st \in {"True", "False"},
             r \in {"Reconciling"} }

UniqueTypes(conditions) ==
    \A i, j \in 1..Len(conditions) :
        conditions[i].type = conditions[j].type => i = j

\* the lists with at most one entry per type, up to MaxConditions long
InitialConditions ==
    { l \in UNION { [1..n -> ConditionInputs] : n \in 0..MaxConditions } :
        UniqueTypes(l) }

InitUpsert ==
    /\ storeDeployment = None
    /\ storePrometheusRule = None
    /\ storeConfigMap = None
    /\ storeOtherAlertRules = [key \in OtherKeys |-> None]
    /\ created = [k \in {DeploymentKind, AlertRuleKind, PrometheusRuleKind, ConfigMapKind} |->
                    IF k = AlertRuleKind THEN 1 ELSE 0]
    /\ \E u \in UserAlertRules, l \in InitialConditions :
          storeAlertRule =
              [ name |-> AlertRuleName(ReqName), namespace |-> ReqNamespace,
                apiVersion |-> AlertRuleAPIVersion, kind |-> AlertRuleKind,
                labels |-> u.labels, ownerReferences |-> << >>,
                spec |-> u.spec, conditions |-> l,
                exists |-> TRUE, uid |-> <<AlertRuleKind, 1>>, rv |-> 1,
                deleting |-> FALSE ]
    /\ drPc = "idle" /\ drDeployment = None /\ drAlertRule = None
    /\ drResult = "none" /\ drLog = << >>
    /\ arPc = "idle" /\ arAlertRule = None /\ arExistingRule = None
    /\ arResult = "none" /\ arLog = << >>

\* one updateStatus on the AlertRule as fetched: the upsert in memory, then
\* Status().Update, which stores the list or fails and stores nothing
UpsertStep ==
    \E condition \in ConditionInputs, accepted \in BOOLEAN :
        /\ arAlertRule' = updateStatus(storeAlertRule, condition)
        /\ arLog' = << condition >>
        /\ arResult' = IF accepted THEN "ok" ELSE "err"
        /\ storeAlertRule' =
              IF accepted
              THEN [storeAlertRule EXCEPT !.conditions = arAlertRule'.conditions]
              ELSE storeAlertRule
        /\ UNCHANGED <<storeOtherAlertRules, storeConfigMap, storeDeployment, storePrometheusRule, created,
                       drVars, arPc, arExistingRule>>

SpecUpsert == InitUpsert /\ [][UpsertStep]_vars

---------------------------------------------------------------------------
(* The end-to-end scenario: the Deployment checkout is live and stays so,
   nobody but the two reconcilers writes.  Store calls fail at will, but no
   longer once the AlertRule has reached its last version but one (so that
   the versions stay within MaxRV). *)

InitLive ==
    /\ storeDeployment = [ name |-> ReqName, namespace |-> ReqNamespace,
                           apiVersion |-> DeploymentAPIVersion,
                           kind |-> DeploymentKind,
                           exists |-> TRUE, uid |-> <<DeploymentKind, 1>>,
                           rv |-> 1, deleting |-> FALSE ]
    /\ storeAlertRule = None
    /\ storePrometheusRule = None
    /\ storeConfigMap = None
    /\ storeOtherAlertRules = [key \in OtherKeys |-> None]
    /\ created = [k \in {DeploymentKind, AlertRuleKind, PrometheusRuleKind, ConfigMapKind} |->
                    IF k = DeploymentKind THEN 1 ELSE 0]
    /\ drPc = "idle" /\ drDeployment = None /\ drAlertRule = None
    /\ drResult = "none" /\ drLog = << >>
    /\ arPc = "idle" /\ arAlertRule = None /\ arExistingRule = None
    /\ arResult = "none" /\ arLog = << >>

\* the outcome of the last store call of a run
LastCall(log) == log[Len(log)]

\* the store call of this step did not fail with a transient error
NoFault ==
    /\ drLog' # drLog => LastCall(drLog')[2] # "fault"
    /\ arLog' # arLog => LastCall(arLog')[2] # "fault"

\* from here on no store call fails
FaultsCeased == storeAlertRule.exists /\ storeAlertRule.rv >= MaxRV - 1

Calm == FaultsCeased => NoFault

\* the steps the two reconcilers can take while the Deployment is live (the
\* deletion paths of DeploymentReconciler and the deploymentRef update need
\* an absent Deployment or a foreign AlertRule)
NextLive ==
    \/ DRGetDeployment /\ Calm
    \/ DRGetAlertRule /\ Calm
    \/ DRCreateAlertRule /\ Calm
    \/ ARGetAlertRule /\ Calm
    \/ ARDeleteGet /\ Calm
    \/ ARGetPrometheusRule /\ Calm
    \/ ARCreatePrometheusRule /\ Calm
    \/ ARUpdatePrometheusRule /\ Calm
    \/ ARRefetch /\ Calm
    \/ ARStatusUpdate /\ Calm

\* both reconcilers keep being invoked and every run goes on to its end
FairLive ==
    /\ WF_vars(DRGetDeployment /\ Calm)
    /\ WF_vars(DRGetAlertRule /\ Calm)
    /\ WF_vars(DRCreateAlertRule /\ Calm)
    /\ WF_vars(ARGetAlertRule /\ Calm)
    /\ WF_vars(ARDeleteGet /\ Calm)
    /\ WF_vars(ARGetPrometheusRule /\ Calm)
    /\ WF_vars(ARCreatePrometheusRule /\ Calm)
    /\ WF_vars(ARUpdatePrometheusRule /\ Calm)
    /\ WF_vars(ARRefetch /\ Calm)
    /\ WF_vars(ARStatusUpdate /\ Calm)

SpecLive == InitLive /\ [][NextLive]_vars /\ FairLive

---------------------------------------------------------------------------
(* A run of AlertRuleReconciler that stops between its two writes (the
   process crashes or the context is cancelled), and the run the manager
   starts for the same key afterwards *)

\* the run has stopped once already
Stopped(log) == \E i \in 1..Len(log) : log[i][1] = "stopped"

\* Reconcile stops after r.Create / r.Update of the PrometheusRule and before
\* r.Status().Update: its locals are lost, the store keeps what was written
ARCrash ==
    /\ arPc \in {"refetch", "status"}
    /\ ~Stopped(arLog)
    /\ arPc' = "stopped"
    /\ arLog' = Append(arLog, <<"stopped", arPc>>)
    /\ arAlertRule' = None
    /\ arExistingRule' = None
    /\ arResult' = "none"
    /\ UNCHANGED <<storeVars, drVars>>

\* the next Reconcile for the key: r.Get(ctx, req.NamespacedName, alertRule)
\* and the two early returns; the log of the stopped run is kept
ARRestart ==
    /\ arPc = "stopped"
    /\ \E fault \in FaultChoices :
        LET outcome == IF fault THEN "fault" ELSE GetOutcome(storeAlertRule) IN
        /\ arLog' = Append(arLog, <<"getAlertRule", outcome>>)
        /\ arExistingRule' = None
        /\ CASE outcome = "fault" ->
                  /\ arPc' = "done" /\ arResult' = "err" /\ arAlertRule' = None
             [] outcome = "notfound" ->
                  /\ arPc' = "delGet" /\ arResult' = "none" /\ arAlertRule' = None
             [] outcome = "ok" /\ storeAlertRule.deleting ->
                  /\ arPc' = "done" /\ arResult' = "ok" /\ arAlertRule' = None
             [] OTHER ->
                  /\ arPc' = "getRule" /\ arResult' = "none"
                  /\ arAlertRule' = storeAlertRule
    /\ UNCHANGED <<storeVars, drVars>>

\* AlertRuleReconciler, stopping at most once per run and restarted, against
\* users who create and edit the AlertRule; nobody else writes the
\* PrometheusRule
NextCrash ==
    \/ ARGetAlertRule \/ ARGetPrometheusRule \/ ARCreatePrometheusRule
    \/ ARUpdatePrometheusRule \/ ARRefetch \/ ARStatusUpdate
    \/ ARDeleteGet
    \/ ARCrash \/ ARRestart
    \/ UserCreatesAlertRule \/ UserEditsAlertRule

SpecCrash == Init /\ [][NextCrash]_vars

---------------------------------------------------------------------------
(* A run of AlertRuleReconciler whose status write failed, and the run the
   manager starts for the same key because Reconcile returned the error *)

\* the log continues a run whose status write failed
Retried(log) ==
    \E i \in 1..(Len(log) - 1) : log[i][1] = "updateStatus" /\ log[i][2] # "ok"

\* the requeued Reconcile: r.Get(ctx, req.NamespacedName, alertRule) and the
\* two early returns; the log of the failed run is kept
ARRetry ==
    /\ arPc = "done" /\ arResult = "err"
    /\ LastCall(arLog)[1] = "updateStatus"
    /\ ~Retried(arLog)
    /\ \E fault \in FaultChoices :
        LET outcome == IF fault THEN "fault" ELSE GetOutcome(storeAlertRule) IN
        /\ arLog' = Append(arLog, <<"getAlertRule", outcome>>)
        /\ arExistingRule' = None
        /\ CASE outcome = "fault" ->
                  /\ arPc' = "done" /\ arResult' = "err" /\ arAlertRule' = None
             [] outcome = "notfound" ->
                  /\ arPc' = "delGet" /\ arResult' = "none" /\ arAlertRule' = None
             [] outcome = "ok" /\ storeAlertRule.deleting ->
                  /\ arPc' = "done" /\ arResult' = "ok" /\ arAlertRule' = None
             [] OTHER ->
                  /\ arPc' = "getRule" /\ arResult' = "none"
                  /\ arAlertRule' = storeAlertRule
    /\ UNCHANGED <<storeVars, drVars>>

\* AlertRuleReconciler, requeued after a failed status write, against users
\* who create and edit the AlertRule; nobody else writes the PrometheusRule
NextRetry ==
    \/ ARGetAlertRule \/ ARGetPrometheusRule \/ ARCreatePrometheusRule
    \/ ARUpdatePrometheusRule \/ ARRefetch \/ ARStatusUpdate
    \/ ARDeleteGet
    \/ ARRetry
    \/ UserCreatesAlertRule \/ UserEditsAlertRule

SpecRetry == Init /\ [][NextRetry]_vars

---------------------------------------------------------------------------
(* Teardown: the workload exists, is removed from the store, and nothing
   but the two reconcilers removes anything else: there is no garbage
   collector in this specification.  Both reconcilers are invoked fairly
   for their keys. *)

NextTeardown ==
    \/ DRGetDeployment \/ DRGetAlertRule \/ DRCreateAlertRule
    \/ DRUpdateAlertRule \/ DRDeleteGet \/ DRDelete
    \/ ARGetAlertRule \/ ARGetPrometheusRule \/ ARCreatePrometheusRule
    \/ ARUpdatePrometheusRule \/ ARRefetch \/ ARStatusUpdate
    \/ ARDeleteGet \/ ARDelete
    \/ UserCreatesAlertRule
    \/ DeploymentRemoved

FairTeardown ==
    /\ WF_vars(DRGetDeployment) /\ WF_vars(DRGetAlertRule)
    /\ WF_vars(DRCreateAlertRule) /\ WF_vars(DRUpdateAlertRule)
    /\ WF_vars(DRDeleteGet) /\ WF_vars(DRDelete)
    /\ WF_vars(ARGetAlertRule) /\ WF_vars(ARGetPrometheusRule)
    /\ WF_vars(ARCreatePrometheusRule) /\ WF_vars(ARUpdatePrometheusRule)
    /\ WF_vars(ARRefetch) /\ WF_vars(ARStatusUpdate)
    /\ WF_vars(ARDeleteGet) /\ WF_vars(ARDelete)

SpecTeardown == InitLive /\ [][NextTeardown]_vars /\ FairTeardown

---------------------------------------------------------------------------
(* DeploymentReconciler with AlertRules under other keys in the store *)

\* a user creates an AlertRule under another key; the one in req.Namespace
\* names the workload as its owner and in its deploymentRef
UserCreatesOtherAlertRule ==
    \E key \in OtherKeys :
        /\ ~storeOtherAlertRules[key].exists
        /\ storeOtherAlertRules' =
              [storeOtherAlertRules EXCEPT ![key] =
                  [ exists |-> TRUE, deleting |-> FALSE, rv |-> 1,
                    uid |-> <<AlertRuleKind, key>>,
                    name |-> key[2], namespace |-> key[1],
                    apiVersion |-> AlertRuleAPIVersion, kind |-> AlertRuleKind,
                    labels |-> EmptyMap,
                    ownerReferences |->
                        IF key[1] = ReqNamespace
                        THEN << [ apiVersion |-> DeploymentAPIVersion,
                                  kind |-> DeploymentKind, name |-> ReqName,
                                  uid |-> <<DeploymentKind, 1>>,
                                  controller |-> TRUE,
                                  blockOwnerDeletion |-> TRUE ] >>
                        ELSE << >>,
                    spec |-> [ alert |-> "HighLatency",
                               expr |-> "latency_seconds > 1",
                               for |-> "", severity |-> "",
                               labels |-> EmptyMap, annotations |-> Nil,
                               deploymentRef |->
                                   IF key[1] = ReqNamespace
                                   THEN [ namespace |-> ReqNamespace,
                                          name |-> ReqName ]
                                   ELSE Nil ],
                    conditions |-> << >> ] ]
        /\ UNCHANGED <<storeDeployment, storeAlertRule, storePrometheusRule,
                       storeConfigMap, created, drVars, arVars>>

NextDRKeys ==
    \/ DRGetDeployment \/ DRGetAlertRule \/ DRCreateAlertRule \/ DRUpdateAlertRule
    \/ DRDeleteGet \/ DRDelete
    \/ DeploymentCreated \/ DeploymentMarkedForDeletion \/ DeploymentRemoved
    \/ UserCreatesAlertRule \/ UserEditsAlertRule
    \/ UserCreatesOtherAlertRule

SpecDRKeys == Init /\ [][NextDRKeys]_vars

---------------------------------------------------------------------------
(* The ConfigMap backend against the users of list-shaped AlertRules *)

\* list-shaped AlertRule specs a user may declare
UserRuleLists ==
    { [ targetDeployment |-> ReqName,
        rules |-> << [ name |-> "HighLatency", condition |-> "latency_seconds > 1",
                       duration |-> "5m", severity |-> "warning",
                       notifications |-> << [ discord |-> "https://discord.example/hook",
                                              email |-> "" ] >> ] >> ],
      [ targetDeployment |-> ReqName,
        rules |-> << [ name |-> "ErrorRate", condition |-> "error_rate > 0.05",
                       duration |-> "", severity |-> "",
                       notifications |-> << >> ] >> ],
      [ targetDeployment |-> "",
        rules |-> << >> ] }

\* a user creates a list-shaped AlertRule "<deployment>-alert"
UserCreatesRuleList ==
    /\ ~storeAlertRule.exists
    /\ CanCreate(AlertRuleKind)
    /\ \E spec \in UserRuleLists :
        storeAlertRule' =
            Stored([ name |-> AlertRuleName(ReqName), namespace |-> ReqNamespace,
                     apiVersion |-> AlertRuleAPIVersion, kind |-> AlertRuleKind,
                     labels |-> EmptyMap, ownerReferences |-> << >>,
                     spec |-> spec, conditions |-> << >> ])
    /\ created' = Allocated(AlertRuleKind)
    /\ UNCHANGED <<storeOtherAlertRules, storeDeployment, storePrometheusRule, storeConfigMap,
                   drVars, arVars>>

\* a user replaces the spec of the list-shaped AlertRule
UserEditsRuleList ==
    /\ storeAlertRule.exists
    /\ storeAlertRule.rv < MaxRV
    /\ \E spec \in UserRuleLists :
        /\ spec # storeAlertRule.spec
        /\ storeAlertRule' = [storeAlertRule EXCEPT !.spec = spec, !.rv = @ + 1]
    /\ UNCHANGED <<storeOtherAlertRules, storeDeployment, storePrometheusRule, storeConfigMap, created,
                   drVars, arVars>>

\* another writer puts a label and an owner reference of its own on the
\* ConfigMap
OtherWriterEditsConfigMap ==
    /\ storeConfigMap.exists
    /\ storeConfigMap.rv < MaxRV
    /\ "edited-by" \notin DOMAIN storeConfigMap.labels
    /\ storeConfigMap' =
           [storeConfigMap EXCEPT
               !.labels = Overlay(@, "edited-by" :> "someone"),
               !.ownerReferences =
                   Append(@, [ apiVersion |-> DeploymentAPIVersion,
                               kind       |-> DeploymentKind,
                               name       |-> ReqName,
                               uid        |-> <<DeploymentKind, 0>>,
                               controller |-> FALSE,
                               blockOwnerDeletion |-> FALSE ]),
               !.rv = @ + 1]
    /\ UNCHANGED <<storeOtherAlertRules, storeDeployment, storeAlertRule, storePrometheusRule, created,
                   drVars, arVars>>

NextCM ==
    \/ CMGetAlertRule \/ CMStatusProgressing \/ CMGetConfigMap
    \/ CMCreateConfigMap \/ CMUpdateConfigMap
    \/ CMStatusDegraded \/ CMStatusAvailable
    \/ UserCreatesRuleList \/ UserEditsRuleList
    \/ AlertRuleMarkedForDeletion \/ AlertRuleRemoved
    \/ OtherWriterEditsConfigMap

SpecCM == Init /\ [][NextCM]_vars

---------------------------------------------------------------------------
(* Properties: helpers *)

\* the store calls of a run that are writes
Writes(log) ==
    { i \in 1..Len(log) :
        log[i][1] \in { "createAlertRule", "updateAlertRule", "deleteAlertRule",
                        "createPrometheusRule", "updatePrometheusRule",
                        "deletePrometheusRule", "updateStatus" } }

\* a step of DeploymentReconciler / of AlertRuleReconciler
DRActs == drVars' # drVars
ARActs == arVars' # arVars

\* spec.deploymentRef names the workload
RefCurrent(alertRule, deployment) ==
    alertRule.spec.deploymentRef =
        [namespace |-> deployment.namespace, name |-> deployment.name]

\* everything a user declares in the spec, except deploymentRef
UserFields(alertRule) ==
    [ alert       |-> alertRule.spec.alert,
      expr        |-> alertRule.spec.expr,
      for         |-> alertRule.spec.for,
      severity    |-> alertRule.spec.severity,
      labels      |-> alertRule.spec.labels,
      annotations |-> alertRule.spec.annotations ]

---------------------------------------------------------------------------
(* C1: whenever a step of DeploymentReconciler leaves an AlertRule that was
   in the store before the step, the stored severity, expr, for, labels and
   annotations (and alert) are what they were immediately before the step:
   deploymentRef is the only spec field its write changes, also when users
   edit the AlertRule between its Get and its Update. *)
C1_RefUpdateKeepsUserFields ==
    [][ (DRActs /\ storeAlertRule.exists /\ storeAlertRule'.exists)
          => UserFields(storeAlertRule') = UserFields(storeAlertRule) ]_vars

\* the update was applied to an AlertRule with severity warning whose
\* deploymentRef named another namespace
C1_Witness ==
    /\ drPc = "done" /\ drResult = "ok"
    /\ LastCall(drLog) = <<"updateAlertRule", "ok">>
    /\ storeAlertRule.exists
    /\ storeAlertRule.spec.severity = "warning"
    /\ storeAlertRule.spec.deploymentRef =
          [namespace |-> ReqNamespace, name |-> ReqName]

---------------------------------------------------------------------------
(* C9: a run of DeploymentReconciler that finds no workload at its key and
   meets no transient store error returns success with the AlertRule
   "<workload>-alert" absent: it issues one Delete when its Get found the
   AlertRule (a not-found answer of that Delete, when the AlertRule went
   away in between, is success too) and no write at all, leaving the store
   as it is, when its Get found none. *)
C9_WorkloadAbsentPath ==
    [][ ( /\ DRActs
          /\ drPc' = "done"
          /\ drLog'[1] = <<"getDeployment", "notfound">>
          /\ LastCall(drLog')[2] # "fault" )
          => /\ drResult' = "ok"
             /\ ~storeAlertRule'.exists
             /\ IF drLog'[2] = <<"getAlertRule", "notfound">>
                THEN /\ Writes(drLog') = {}
                     /\ storeAlertRule' = storeAlertRule
                ELSE /\ Writes(drLog') = {3}
                     /\ drLog'[3][1] = "deleteAlertRule"
                     /\ Len(drLog') = 3 ]_vars

\* the AlertRule went away between the Get and the Delete, and the run
\* returned success
C9_Witness ==
    /\ drPc = "done" /\ drResult = "ok"
    /\ drLog = << <<"getDeployment", "notfound">>, <<"getAlertRule", "ok">>,
                  <<"deleteAlertRule", "notfound">> >>

---------------------------------------------------------------------------
(* C10: the transitions of DeploymentReconciler on the AlertRule
   "<workload>-alert".  With the workload live: a Get that finds no
   AlertRule is followed by exactly one write, a Create, which when accepted
   leaves the AlertRule in the store with deploymentRef naming the workload;
   a Get that finds deploymentRef missing or naming another namespace or
   name is followed by exactly one write, an Update, which when accepted
   leaves deploymentRef naming the workload; a Get that finds deploymentRef
   current ends the run with success and no write.  With the workload
   absent the run's Get or Delete leaves the AlertRule absent.  No other
   step of the reconciler changes the stored AlertRule. *)
C10_StateMachine ==
    [][ DRActs =>
        /\ (drPc = "getAlertRule" /\ LastCall(drLog')[2] # "fault") =>
              /\ storeAlertRule' = storeAlertRule
              /\ ~storeAlertRule.exists => drPc' = "create"
              /\ (storeAlertRule.exists /\ ~RefCurrent(storeAlertRule, drDeployment))
                    => drPc' = "update"
              /\ (storeAlertRule.exists /\ RefCurrent(storeAlertRule, drDeployment))
                    => (drPc' = "done" /\ drResult' = "ok" /\ Writes(drLog') = {})
        /\ drPc = "create" =>
              /\ drPc' = "done"
              /\ Writes(drLog') = {Len(drLog')}
              /\ LastCall(drLog')[1] = "createAlertRule"
              /\ IF LastCall(drLog')[2] = "ok"
                 THEN /\ ~storeAlertRule.exists /\ storeAlertRule'.exists
                      /\ RefCurrent(storeAlertRule', drDeployment)
                      /\ drResult' = "ok"
                 ELSE storeAlertRule' = storeAlertRule /\ drResult' = "err"
        /\ drPc = "update" =>
              /\ drPc' = "done"
              /\ Writes(drLog') = {Len(drLog')}
              /\ LastCall(drLog')[1] = "updateAlertRule"
              /\ IF LastCall(drLog')[2] = "ok"
                 THEN /\ storeAlertRule.exists /\ storeAlertRule'.exists
                      /\ ~RefCurrent(storeAlertRule, drDeployment)
                      /\ RefCurrent(storeAlertRule', drDeployment)
                      /\ drResult' = "ok"
                 ELSE storeAlertRule' = storeAlertRule /\ drResult' = "err"
        /\ (drPc \in {"delGet", "delete"} /\ drPc' = "done"
              /\ LastCall(drLog')[2] # "fault") => ~storeAlertRule'.exists
        /\ storeAlertRule' # storeAlertRule => drPc \in {"create", "update", "delete"}
      ]_vars

\* the run found no AlertRule and its one write, the Create, left the
\* AlertRule with deploymentRef naming the workload
C10_Witness ==
    /\ drPc = "done" /\ drResult = "ok"
    /\ drLog = << <<"getDeployment", "ok">>, <<"getAlertRule", "notfound">>,
                  <<"createAlertRule", "ok">> >>
    /\ storeAlertRule.exists
    /\ RefCurrent(storeAlertRule, storeDeployment)

---------------------------------------------------------------------------
(* C2: a run of AlertRuleReconciler that finds no AlertRule at its key and
   meets no transient store error returns success with the PrometheusRule
   of that name absent: it issues one Delete when its Get found the
   PrometheusRule (a not-found answer of that Delete, when the artifact went
   away in between, is success too), and no write at all, leaving the store
   as it is, when its Get found none. *)
C2_DeletionFallback ==
    [][ ( /\ ARActs
          /\ arPc' = "done"
          /\ arLog'[1] = <<"getAlertRule", "notfound">>
          /\ LastCall(arLog')[2] # "fault" )
          => /\ arResult' = "ok"
             /\ ~storePrometheusRule'.exists
             /\ IF arLog'[2] = <<"getPrometheusRule", "notfound">>
                THEN /\ Writes(arLog') = {}
                     /\ storePrometheusRule' = storePrometheusRule
                     /\ storeAlertRule' = storeAlertRule
                ELSE /\ Writes(arLog') = {3}
                     /\ arLog'[3][1] = "deletePrometheusRule"
                     /\ Len(arLog') = 3 ]_vars

\* the artifact was found and removed by a run that found no AlertRule
C2_Witness ==
    /\ arPc = "done" /\ arResult = "ok"
    /\ arLog = << <<"getAlertRule", "notfound">>, <<"getPrometheusRule", "ok">>,
                  <<"deletePrometheusRule", "ok">> >>
    /\ ~storePrometheusRule.exists

---------------------------------------------------------------------------
(* C3: a run of AlertRuleReconciler.Reconcile in which a Get, Create or
   Update (the re-fetch of updateStatus included) failed with an error other
   than not-found has returned an error. *)
C3_TransientErrorIsReturned ==
    ( /\ arPc = "done"
      /\ \E i \in 1..Len(arLog) :
            /\ arLog[i][1] \in { "getAlertRule", "getPrometheusRule",
                                 "createPrometheusRule", "updatePrometheusRule",
                                 "refetchPrometheusRule", "updateStatus" }
            /\ arLog[i][2] \notin {"ok", "notfound"} )
    => arResult = "err"

---------------------------------------------------------------------------
(* C4: a Reconcile that runs when the PrometheusRule in the store is the
   render of the AlertRule in the store, with no writer between its reads
   and its write, takes the update path (a Get that finds the artifact is
   never followed by a Create), its Update is accepted, and the artifact
   keeps its labels, owner reference and spec.groups, and its name,
   namespace and UID; no object is created. *)
Content(prometheusRule) ==
    [ labels |-> prometheusRule.labels,
      ownerReferences |-> prometheusRule.ownerReferences,
      groups |-> prometheusRule.spec.groups ]

Identity(prometheusRule) ==
    [ name |-> prometheusRule.name, namespace |-> prometheusRule.namespace,
      uid |-> prometheusRule.uid ]

\* what of an AlertRule the render reads
Rendered(alertRule) ==
    [ name |-> alertRule.name, namespace |-> alertRule.namespace,
      uid |-> alertRule.uid, labels |-> alertRule.labels, spec |-> alertRule.spec ]

\* the artifact is the one an earlier run left for this AlertRule, and
\* nobody wrote since this run read the AlertRule and the artifact
Settled ==
    /\ storeAlertRule.exists /\ storePrometheusRule.exists
    /\ Rendered(arAlertRule) = Rendered(storeAlertRule)
    /\ arExistingRule = storePrometheusRule
    /\ Content(storePrometheusRule) = Content(createPrometheusRule(storeAlertRule))

C4_Idempotence ==
    [][ ARActs =>
        /\ (arPc = "getRule" /\ storePrometheusRule.exists
               /\ LastCall(arLog')[2] # "fault")
              => (arPc' = "update" /\ arExistingRule' = storePrometheusRule)
        /\ (arPc = "update" /\ Settled /\ LastCall(arLog')[2] # "fault")
              => /\ LastCall(arLog') = <<"updatePrometheusRule", "ok">>
                 /\ Content(storePrometheusRule') = Content(storePrometheusRule)
                 /\ Identity(storePrometheusRule') = Identity(storePrometheusRule)
                 /\ created' = created
      ]_vars

\* a second run has sent its Update and the artifact, created by an earlier
\* run, is still at its first version
C4_Witness ==
    /\ arPc = "refetch"
    /\ LastCall(arLog) = <<"updatePrometheusRule", "ok">>
    /\ storePrometheusRule.exists /\ storePrometheusRule.rv = 1
    /\ created[PrometheusRuleKind] = 1

---------------------------------------------------------------------------
(* C5: when the status write of a Reconcile is accepted, the stored
   AlertRule holds exactly one PrometheusRuleReady condition, and it is
   True / PrometheusRuleCreated when the run's re-fetch found the artifact,
   False / PrometheusRuleNotFound when the re-fetch returned not-found, and
   Unknown / Error when the re-fetch failed otherwise. *)
ExpectedReady(refetch) ==
    CASE refetch = "ok" -> <<"True", "PrometheusRuleCreated">>
      [] refetch = "notfound" -> <<"False", "PrometheusRuleNotFound">>
      [] OTHER -> <<"Unknown", "Error">>

C5_StatusReflectsRefetch ==
    [][ (ARActs /\ arPc = "status" /\ LastCall(arLog') = <<"updateStatus", "ok">>)
          => LET conditions == storeAlertRule'.conditions
                 ready == { i \in 1..Len(conditions) : conditions[i].type = ReadyType }
             IN /\ LastCall(arLog)[1] = "refetchPrometheusRule"
                /\ Cardinality(ready) = 1
                /\ \A i \in ready :
                      <<conditions[i].status, conditions[i].reason>>
                          = ExpectedReady(LastCall(arLog)[2]) ]_vars

\* the artifact was removed between the upsert and the re-fetch, and the
\* accepted status write recorded False
C5_Witness ==
    /\ arPc = "done" /\ arResult = "ok"
    /\ Len(arLog) = 5
    /\ arLog[4] = <<"refetchPrometheusRule", "notfound">>
    /\ arLog[5] = <<"updateStatus", "ok">>
    /\ storeAlertRule.exists
    /\ \E i \in 1..Len(storeAlertRule.conditions) :
          /\ storeAlertRule.conditions[i].type = ReadyType
          /\ storeAlertRule.conditions[i].status = "False"

---------------------------------------------------------------------------
(* C7: in the PrometheusRule that Reconcile hands to Create or Update, the
   labels are the built-in set overlaid with the labels of the AlertRule,
   the AlertRule's value winning on every key but managed-by, which stays
   alert-rule-operator. *)
C7_MergePrecedence ==
    arPc \in {"create", "update"} =>
        LET labels == createPrometheusRule(arAlertRule).labels
            user == arAlertRule.labels
        IN /\ DOMAIN labels = {"managed-by", "release"} \cup DOMAIN user
           /\ labels["managed-by"] = "alert-rule-operator"
           /\ \A k \in (DOMAIN user) \ {"managed-by"} : labels[k] = user[k]
           /\ "release" \notin DOMAIN user => labels["release"] = "monitoring"

---------------------------------------------------------------------------
(* C6: an updateStatus on a condition list with at most one entry per type
   leaves a list with at most one entry per type, in memory and in the
   store; when the type is in the list the entry at its position becomes the
   new condition (status, reason, message) and every other entry keeps its
   position and content; when it is not, the condition is appended at the
   end. *)
C6_ConditionListInvariant ==
    [][ Len(arLog') > 0 =>
          LET condition == arLog'[1]
              old == storeAlertRule.conditions
              new == arAlertRule'.conditions
          IN /\ UniqueTypes(old)
             /\ UniqueTypes(new)
             /\ UniqueTypes(storeAlertRule'.conditions)
             /\ IF \E i \in 1..Len(old) : old[i].type = condition.type
                THEN /\ Len(new) = Len(old)
                     /\ \A i \in 1..Len(old) :
                           new[i] = IF old[i].type = condition.type
                                    THEN condition ELSE old[i]
                ELSE new = Append(old, condition) ]_vars

\* the first of three entries was replaced by a condition of its type with
\* another status, and the list was stored
C6_Witness ==
    /\ Len(arLog) = 1 /\ arResult = "ok"
    /\ Len(storeAlertRule.conditions) = 3
    /\ storeAlertRule.conditions[1] = arLog[1]
    /\ arLog[1].type = ReadyType /\ arLog[1].status = "Unknown"

---------------------------------------------------------------------------
(* C8: at each of the three updates (deploymentRef update, PrometheusRule
   replace, status update), when the stored object is no longer the one the
   reconciler fetched at the version it fetched (another writer changed it
   in between), the store is left exactly as the other writer left it and
   the run ends with an error, never with success; every run fetches the
   object anew before it updates, and an update of an object that is still
   as fetched is accepted unless the call itself fails, so that the retried
   run writes its content and goes on. *)

\* the stored object is not the one that was read, or not at that version
Stale(stored, sent) ==
    stored.exists /\ (stored.uid # sent.uid \/ stored.rv # sent.rv)

UpdateChecked(stored, storedAfter, sent, log, result, accepted) ==
    LET outcome == LastCall(log)[2] IN
    /\ Stale(stored, sent) =>
          /\ outcome \in {"conflict", "fault"}
          /\ storedAfter = stored
          /\ result = "err"
    /\ (stored.exists /\ ~Stale(stored, sent) /\ outcome # "fault") =>
          /\ outcome = "ok"
          /\ result # "err"
          /\ storedAfter.uid = stored.uid
          /\ accepted

C8_OptimisticConcurrency ==
    [][ /\ (drPc = "update" /\ drPc' = "done") =>
              UpdateChecked(storeAlertRule, storeAlertRule', drAlertRule,
                            drLog', drResult',
                            storeAlertRule'.spec = drAlertRule.spec)
        /\ (arPc = "update" /\ arPc' # "update") =>
              UpdateChecked(storePrometheusRule, storePrometheusRule',
                            PrepareUpdate(createPrometheusRule(arAlertRule),
                                          arExistingRule),
                            arLog', arResult',
                            Content(storePrometheusRule')
                               = Content(createPrometheusRule(arAlertRule)))
        /\ (arPc = "status" /\ arPc' = "done") =>
              UpdateChecked(storeAlertRule, storeAlertRule', arAlertRule,
                            arLog', arResult',
                            storeAlertRule'.conditions = arAlertRule.conditions)
        \* the objects a run updates are fetched in that run
        /\ (drPc # "update" /\ drPc' = "update") =>
              ~Stale(storeAlertRule, drAlertRule')
        /\ (arPc # "update" /\ arPc' = "update") =>
              arExistingRule' = storePrometheusRule
        /\ (arPc # "getRule" /\ arPc' = "getRule") =>
              arAlertRule' = storeAlertRule ]_vars

\* both reconcilers have just had an update rejected as a conflict: the
\* deploymentRef update and the status update
C8_Witness ==
    /\ Len(drLog) > 0 /\ Len(arLog) > 0
    /\ LastCall(drLog) = <<"updateAlertRule", "conflict">> /\ drResult = "err"
    /\ LastCall(arLog) = <<"updateStatus", "conflict">> /\ arResult = "err"
    /\ storeAlertRule.exists

---------------------------------------------------------------------------
(* C11: a run of DeploymentReconciler for the live Deployment checkout in
   namespace default that finds no AlertRule checkout-alert goes on to
   create it; when the AlertRule is still absent and the call does not fail,
   the store then holds the AlertRule checkout-alert in default with alert
   checkoutPodDown, expr up{job="checkout"} == 0, for 1m, severity critical,
   labels deployment and namespace, annotations summary and description
   naming the workload and the namespace, deploymentRef {default, checkout}
   and one controller owner reference with the UID of the Deployment; the
   run returns success and the create is its only write. *)
C11_DefaultSynthesis ==
    [][ /\ (drPc = "getAlertRule" /\ drPc' # "getAlertRule"
              /\ LastCall(drLog') = <<"getAlertRule", "notfound">>) =>
              /\ drPc' = "create"
              /\ drDeployment'.exists /\ ~drDeployment'.deleting
        /\ (drPc = "create" /\ drPc' = "done" /\ ~storeAlertRule.exists
              /\ LastCall(drLog')[2] # "fault") =>
              /\ LastCall(drLog') = <<"createAlertRule", "ok">>
              /\ drResult' = "ok"
              /\ Cardinality(Writes(drLog')) = 1
              /\ storeAlertRule'.exists
              /\ storeAlertRule'.name = "checkout-alert"
              /\ storeAlertRule'.namespace = "default"
              /\ storeAlertRule'.spec.alert = "checkoutPodDown"
              /\ storeAlertRule'.spec.expr = "up{job=\"checkout\"} == 0"
              /\ storeAlertRule'.spec.for = "1m"
              /\ storeAlertRule'.spec.severity = "critical"
              /\ storeAlertRule'.spec.labels
                    = [k \in {"deployment", "namespace"} |->
                         IF k = "deployment" THEN "checkout" ELSE "default"]
              /\ storeAlertRule'.spec.annotations
                    = [k \in {"summary", "description"} |->
                         IF k = "summary" THEN "Pod checkout is down"
                         ELSE "Pod checkout in namespace default has been down for more than 1 minutes"]
              /\ storeAlertRule'.spec.deploymentRef
                    = [namespace |-> "default", name |-> "checkout"]
              /\ Len(storeAlertRule'.ownerReferences) = 1
              /\ storeAlertRule'.ownerReferences[1].controller
              /\ storeAlertRule'.ownerReferences[1].name = "checkout"
              /\ storeAlertRule'.ownerReferences[1].kind = DeploymentKind
              /\ storeAlertRule'.ownerReferences[1].uid = drDeployment.uid ]_vars

\* the default AlertRule has just been created for the Deployment that is in
\* the store
C11_Witness ==
    /\ Len(drLog) > 0 /\ LastCall(drLog) = <<"createAlertRule", "ok">>
    /\ drResult = "ok"
    /\ storeDeployment.exists
    /\ storeAlertRule.exists /\ storeAlertRule.spec.alert = "checkoutPodDown"
    /\ storeAlertRule.ownerReferences[1].uid = storeDeployment.uid

---------------------------------------------------------------------------
(* C12: from the live Deployment checkout with no AlertRule and no
   PrometheusRule, with both reconcilers invoked fairly, if from some point
   on no store call fails then the store eventually holds, and from then on always holds, the
   AlertRule checkout-alert (checkoutPodDown, up{job="checkout"} == 0, 1m,
   critical), the PrometheusRule checkout-alert with one group of one rule
   carrying those fields and the label managed-by=alert-rule-operator, and
   in the AlertRule's status the condition PrometheusRuleReady with status
   True. *)
EndToEnd ==
    /\ storeAlertRule.exists
    /\ storeAlertRule.name = "checkout-alert"
    /\ storeAlertRule.spec.alert = "checkoutPodDown"
    /\ storeAlertRule.spec.expr = "up{job=\"checkout\"} == 0"
    /\ storeAlertRule.spec.for = "1m"
    /\ storeAlertRule.spec.severity = "critical"
    /\ storePrometheusRule.exists
    /\ storePrometheusRule.name = "checkout-alert"
    /\ storePrometheusRule.labels["managed-by"] = "alert-rule-operator"
    /\ Len(storePrometheusRule.spec.groups) = 1
    /\ Len(storePrometheusRule.spec.groups[1].rules) = 1
    /\ LET rule == storePrometheusRule.spec.groups[1].rules[1] IN
          /\ rule.alert = "checkoutPodDown"
          /\ rule.expr = "up{job=\"checkout\"} == 0"
          /\ rule["for"] = "1m"
          /\ rule.labels["severity"] = "critical"
    /\ \E i \in 1..Len(storeAlertRule.conditions) :
          /\ storeAlertRule.conditions[i].type = ReadyType
          /\ storeAlertRule.conditions[i].status = "True"

C12_EndToEndConvergence == (<>[][NoFault]_vars) => <>[]EndToEnd

\* the scenario is complete after a status write that had to repair an
\* earlier one (the AlertRule is at its third version)
C12_Witness ==
    /\ EndToEnd
    /\ arPc = "done" /\ arResult = "ok"
    /\ storeAlertRule.rv = 3

---------------------------------------------------------------------------
(* C13: when a run of AlertRuleReconciler on an existing AlertRule without
   deletion timestamp returns an error from the fetch, the create or the
   update of the PrometheusRule, and the AlertRule in the store is still the
   one the run read (a status write would be accepted), the run has recorded
   the failure in the stored condition list: the list has changed, or it
   already holds a condition that reports a failure. *)
FailureRecorded(conditions) ==
    \E i \in 1..Len(conditions) :
        \/ conditions[i].type = "Degraded" /\ conditions[i].status = "True"
        \/ conditions[i].type = ReadyType /\ conditions[i].status # "True"

C13_FailuresSurface ==
    [][ ( /\ arPc \in {"getRule", "create", "update"}
          /\ arPc' = "done" /\ arResult' = "err"
          /\ UpdateOutcome(storeAlertRule, arAlertRule) = "ok"
          /\ ~storeAlertRule.deleting )
        => \/ storeAlertRule'.conditions # storeAlertRule.conditions
           \/ FailureRecorded(storeAlertRule'.conditions) ]_vars

---------------------------------------------------------------------------
(* C14: after a run has stopped between the write of the PrometheusRule and
   the status write, the next run for the key, unless a store call fails or
   the AlertRule is edited under it, does not end in an error; its write of
   the PrometheusRule changes nothing when the PrometheusRule is already the
   render of the AlertRule it read; and when it completes, the store holds
   the one PrometheusRule ever created, equal to the render of the stored
   AlertRule, and the condition PrometheusRuleReady reports what the
   re-fetch found (True when it found the PrometheusRule), exactly what a
   run that was never interrupted leaves. *)
C14_CrashRecovery ==
    [][ (Stopped(arLog) /\ arPc # "stopped" /\ ARActs) =>
          /\ LastCall(arLog')[2] \notin {"fault", "conflict"} => arResult' # "err"
          /\ ( /\ arPc = "update"
               /\ LastCall(arLog')[2] # "fault"
               /\ Content(storePrometheusRule)
                     = Content(createPrometheusRule(arAlertRule)) )
                => storePrometheusRule' = storePrometheusRule
          /\ (arPc = "status" /\ LastCall(arLog') = <<"updateStatus", "ok">>) =>
                /\ storePrometheusRule'.exists
                /\ created'[PrometheusRuleKind] = 1
                /\ Content(storePrometheusRule')
                      = Content(createPrometheusRule(storeAlertRule'))
                /\ UniqueTypes(storeAlertRule'.conditions)
                /\ \E i \in 1..Len(storeAlertRule'.conditions) :
                      /\ storeAlertRule'.conditions[i].type = ReadyType
                      /\ <<storeAlertRule'.conditions[i].status,
                           storeAlertRule'.conditions[i].reason>>
                            = ExpectedReady(LastCall(arLog)[2]) ]_vars

\* a run created the PrometheusRule and stopped; the next run has completed
\* with the status written and Ready True
C14_Witness ==
    /\ arPc = "done" /\ arResult = "ok"
    /\ Stopped(arLog)
    /\ arLog[3] = <<"createPrometheusRule", "ok">>
    /\ LastCall(arLog) = <<"updateStatus", "ok">>
    /\ arLog[Len(arLog) - 1] = <<"refetchPrometheusRule", "ok">>
    /\ \E i \in 1..Len(storeAlertRule.conditions) :
          /\ storeAlertRule.conditions[i].type = ReadyType
          /\ storeAlertRule.conditions[i].status = "True"

---------------------------------------------------------------------------
(* C15: when the status write of a run fails after its write of the
   PrometheusRule was accepted, the run returns an error and the
   PrometheusRule stays as written; the requeued run finds the
   PrometheusRule and goes to the update, never to a create; its update is
   accepted unless the call fails and leaves the PrometheusRule exactly as
   it was when that is already the render of the AlertRule the run read;
   one PrometheusRule has been created in all. *)
C15_StatusWriteFailure ==
    [][ /\ (arPc = "status" /\ arPc' = "done"
              /\ LastCall(arLog')[2] # "ok") =>
              /\ arResult' = "err"
              /\ storePrometheusRule.exists
              /\ storePrometheusRule' = storePrometheusRule
        /\ (Retried(arLog) /\ ARActs) =>
              /\ arPc' # "create"
              /\ created'[PrometheusRuleKind] = 1
              /\ (arPc = "getRule" /\ LastCall(arLog')[2] # "fault") =>
                    /\ arPc' = "update"
                    /\ arExistingRule' = storePrometheusRule
              /\ (arPc = "update" /\ LastCall(arLog')[2] # "fault") =>
                    /\ LastCall(arLog') = <<"updatePrometheusRule", "ok">>
                    /\ Identity(storePrometheusRule') = Identity(storePrometheusRule)
                    /\ Content(storePrometheusRule)
                          = Content(createPrometheusRule(arAlertRule))
                       => storePrometheusRule' = storePrometheusRule ]_vars

\* the status write of a run failed with a transient error after the
\* PrometheusRule was created; the requeued run has updated the
\* PrometheusRule and written the status
C15_Witness ==
    /\ arPc = "done" /\ arResult = "ok"
    /\ Len(arLog) = 10
    /\ arLog[3] = <<"createPrometheusRule", "ok">>
    /\ arLog[5] = <<"updateStatus", "fault">>
    /\ arLog[8] = <<"updatePrometheusRule", "ok">>
    /\ arLog[10] = <<"updateStatus", "ok">>
    /\ storePrometheusRule.exists /\ storePrometheusRule.rv = 1

---------------------------------------------------------------------------
(* C16: a run of AlertRuleReconciler.Reconcile whose fetch finds the
   AlertRule with its deletion timestamp set ends at that fetch with
   success, and no step of a run that holds such an AlertRule writes the
   store: no create, update or delete of the artifact, no status update. *)
C16_DeletingAlertRuleIsNoOp ==
    [][ /\ ( /\ arPc \in {"idle", "done"}
             /\ arLog' = << <<"getAlertRule", "ok">> >>
             /\ storeAlertRule.exists /\ storeAlertRule.deleting )
           => (arPc' = "done" /\ arResult' = "ok")
        /\ ( /\ arAlertRule # None /\ arAlertRule.deleting
             /\ arLog' # arLog )
           => storeVars' = storeVars ]_vars

---------------------------------------------------------------------------
(* C17: a run of DeploymentReconciler.Reconcile whose fetch finds the
   workload with its deletion timestamp set ends at that fetch with success:
   it has issued no create, update or delete of an AlertRule and the stored
   AlertRule "<workload>-alert" is what it was, be it absent, present with
   deploymentRef naming the workload, or present with deploymentRef missing
   or naming something else. *)
C17_DeletingWorkloadIsNoOp ==
    [][ ( /\ DRActs
          /\ drPc \in {"idle", "done"}
          /\ storeDeployment.exists /\ storeDeployment.deleting
          /\ drLog'[1] = <<"getDeployment", "ok">> )
        => /\ drPc' = "done" /\ drResult' = "ok"
           /\ Len(drLog') = 1
           /\ Writes(drLog') = {}
           /\ storeVars' = storeVars ]_vars

\* the run for a workload marked for deletion returned success at its fetch
\* while the AlertRule exists with a deploymentRef that does not name the
\* workload, which a run for a live workload would have updated
C17_Witness ==
    /\ drPc = "done" /\ drResult = "ok"
    /\ drLog = << <<"getDeployment", "ok">> >>
    /\ storeDeployment.exists /\ storeDeployment.deleting
    /\ storeAlertRule.exists
    /\ ~RefCurrent(storeAlertRule, storeDeployment)

---------------------------------------------------------------------------
(* C18: in the rule entry a run of AlertRuleReconciler writes, optional
   fields are left out when empty: the entry has a `for` key only when
   spec.for is non-empty, an `annotations` key only when the spec declares
   annotations, and neither `for` nor any label, the severity label of a
   spec without severity included, is the empty string. *)
EmptyOmitted(spec, rule) ==
    /\ "for" \in DOMAIN rule => (spec.for # "" /\ rule.for # "")
    /\ "annotations" \in DOMAIN rule => spec.annotations # Nil
    /\ \A k \in DOMAIN rule.labels : rule.labels[k] # ""

C18_OptionalFieldsOmitted ==
    [][ ( /\ ARActs
          /\ arPc \in {"create", "update"}
          /\ LastCall(arLog')[2] = "ok" )
        => EmptyOmitted(arAlertRule.spec,
                        storePrometheusRule'.spec.groups[1].rules[1]) ]_vars

---------------------------------------------------------------------------
(* C20: with no garbage collector, once the workload is gone from the store
   for good and store errors have ceased, fair runs of the two reconcilers
   lead to the AlertRule "<workload>-alert" and the PrometheusRule of the
   same name being absent from then on.  The AlertRule leaves the store only
   by the Delete of a DeploymentReconciler run that found no workload, the
   PrometheusRule only by the Delete of an AlertRuleReconciler run that
   found no AlertRule, so the AlertRule goes first.  Once both are absent
   with the workload absent and no run under way that fetched the workload
   or the AlertRule before, no step of either reconciler creates one of
   them again. *)
TornDown == ~storeAlertRule.exists /\ ~storePrometheusRule.exists

\* no run is under way that fetched the workload or the AlertRule earlier
NoStaleRun == drDeployment = None /\ arAlertRule = None

C20_Teardown ==
    /\ ((<>[](~storeDeployment.exists)) /\ (<>[][NoFault]_vars)) => <>[]TornDown
    /\ [][ /\ (storeAlertRule.exists /\ ~storeAlertRule'.exists)
                => /\ drPc = "delete"
                   /\ drLog'[1] = <<"getDeployment", "notfound">>
           /\ (storePrometheusRule.exists /\ ~storePrometheusRule'.exists)
                => /\ arPc = "delete"
                   /\ arLog'[1] = <<"getAlertRule", "notfound">>
           /\ ( /\ ~storeDeployment.exists /\ TornDown /\ NoStaleRun
                /\ (DRActs \/ ARActs) )
                => (TornDown' /\ NoStaleRun') ]_vars

\* both objects existed when the workload was removed and both are gone,
\* each by the Delete of its reconciler
C20_Witness ==
    /\ ~storeDeployment.exists
    /\ created[AlertRuleKind] > 0 /\ created[PrometheusRuleKind] > 0
    /\ TornDown
    /\ drPc = "done" /\ Len(drLog) > 0 /\ LastCall(drLog) = <<"deleteAlertRule", "ok">>
    /\ arPc = "done" /\ Len(arLog) > 0 /\ LastCall(arLog) = <<"deletePrometheusRule", "ok">>

---------------------------------------------------------------------------
(* C21: every artifact a run of AlertRuleReconciler writes, by Create or by
   Update, has the name and namespace of the AlertRule it was rendered
   from, a rule group named "<alertRuleName>-group", and exactly one owner
   reference, which is marked controller, names that AlertRule and carries
   its UID. *)
OwnedBy(artifact, alertRule) ==
    /\ artifact.name = alertRule.name
    /\ artifact.namespace = alertRule.namespace
    /\ Len(artifact.ownerReferences) = 1
    /\ artifact.ownerReferences[1].controller
    /\ artifact.ownerReferences[1].kind = alertRule.kind
    /\ artifact.ownerReferences[1].name = alertRule.name
    /\ artifact.ownerReferences[1].uid = alertRule.uid

\* the artifact's rule group is named groupName
GroupNamed(artifact, groupName, alertRule) ==
    IF artifact.kind = ConfigMapKind
    THEN artifact.data["alertrules.yaml"] =
             "groups:\n- name: " \o groupName \o "\n  rules:\n"
             \o JoinWith([i \in 1..Len(alertRule.spec.rules) |->
                             RuleYAML(alertRule.spec.rules[i],
                                      alertRule.spec.targetDeployment)], "")
    ELSE /\ Len(artifact.spec.groups) = 1
         /\ artifact.spec.groups[1].name = groupName

C21_ArtifactIdentity ==
    [][ /\ ( /\ ARActs
             /\ arPc \in {"create", "update"}
             /\ LastCall(arLog')[2] = "ok" )
           => /\ OwnedBy(storePrometheusRule', arAlertRule)
              /\ GroupNamed(storePrometheusRule', arAlertRule.name \o "-group",
                            arAlertRule)
        /\ ( /\ ARActs
             /\ arPc \in {"createConfigMap", "updateConfigMap"}
             /\ LastCall(arLog')[2] = "ok" )
           => /\ OwnedBy(storeConfigMap', arAlertRule)
              /\ GroupNamed(storeConfigMap', arAlertRule.name \o "-group",
                            arAlertRule) ]_vars

---------------------------------------------------------------------------
(* C22: when a run of AlertRuleReconciler finds the artifact and its Update
   is accepted, the stored artifact equals the fresh render in every field
   but UID and resource version, and keeps the UID of the artifact the run
   read: a label, owner reference or content another writer had put on the
   artifact and that the render does not have is gone. *)
Payload(artifact) ==
    [ k \in (DOMAIN artifact) \ {"uid", "rv", "exists", "deleting"} |-> artifact[k] ]

C22_FullObjectReplace ==
    [][ /\ ( /\ ARActs
             /\ arPc = "update"
             /\ LastCall(arLog')[2] = "ok" )
           => /\ Payload(storePrometheusRule')
                    = Payload(createPrometheusRule(arAlertRule))
              /\ storePrometheusRule'.uid = arExistingRule.uid
        /\ ( /\ ARActs
             /\ arPc = "updateConfigMap"
             /\ LastCall(arLog')[2] = "ok" )
           => /\ Payload(storeConfigMap')
                    = Payload(ConfigMapFor(arAlertRule,
                                           generateAlertRulesYAML(arAlertRule).yaml))
              /\ storeConfigMap'.uid = arExistingRule.uid ]_vars

---------------------------------------------------------------------------
(* C23: no step of AlertRuleReconciler creates or deletes the AlertRule or
   changes anything of it but its condition list and, with that, its
   resource version: name, namespace, UID, labels, owner references,
   deletion timestamp and spec, the deploymentRef written by
   DeploymentReconciler and the fields written by a user included, are what
   they were before the step. *)
Observed(alertRule) ==
    [ k \in (DOMAIN alertRule) \ {"conditions", "rv"} |-> alertRule[k] ]

C23_OnlyStatusIsWritten ==
    [][ ARActs => Observed(storeAlertRule') = Observed(storeAlertRule) ]_vars

\* a run of AlertRuleReconciler read the AlertRule before DeploymentReconciler
\* rewrote its deploymentRef, and after its status write was turned down the
\* deploymentRef still names the workload
C23_Witness ==
    /\ drPc = "done" /\ Len(drLog) > 0
    /\ LastCall(drLog) = <<"updateAlertRule", "ok">>
    /\ arPc = "done" /\ Len(arLog) > 0
    /\ LastCall(arLog) = <<"updateStatus", "conflict">>
    /\ storeAlertRule.exists /\ storeDeployment.exists
    /\ RefCurrent(storeAlertRule, storeDeployment)

---------------------------------------------------------------------------
(* C24: in the PrometheusRule backend a run comes to updateStatus only from
   an accepted Create or Update, which leaves the PrometheusRule in the
   store; while the run is between that write and its re-fetch no step of
   its own removes the PrometheusRule, and the re-fetch answers not-found
   only when the PrometheusRule is gone.  So whenever the stored
   PrometheusRuleReady status changes, an accepted status write changed it,
   to True when the re-fetch found the PrometheusRule, to False only when
   the re-fetch answered not-found, i.e. the PrometheusRule was removed by
   someone else after the upsert, and to Unknown only when the re-fetch
   failed. *)
ReadyStatus(alertRule) ==
    IF ~alertRule.exists THEN {}
    ELSE { alertRule.conditions[i].status :
              i \in { j \in 1..Len(alertRule.conditions) :
                         alertRule.conditions[j].type = ReadyType } }

C24_ReadyAfterUpsert ==
    [][ /\ (ARActs /\ arPc' = "refetch")
           => /\ arPc \in {"create", "update"}
              /\ LastCall(arLog')[2] = "ok"
              /\ storePrometheusRule'.exists
        /\ (arPc = "refetch" /\ storePrometheusRule.exists
               /\ ~storePrometheusRule'.exists)
           => ~ARActs
        /\ (ARActs /\ arPc = "refetch" /\ LastCall(arLog')[2] = "notfound")
           => ~storePrometheusRule.exists
        /\ ( /\ storeAlertRule.exists /\ storeAlertRule'.exists
             /\ ReadyStatus(storeAlertRule') # ReadyStatus(storeAlertRule) )
           => /\ ARActs /\ arPc = "status"
              /\ LastCall(arLog') = <<"updateStatus", "ok">>
              /\ arLog[Len(arLog) - 1][1] \in {"createPrometheusRule",
                                                "updatePrometheusRule"}
              /\ arLog[Len(arLog) - 1][2] = "ok"
              /\ ReadyStatus(storeAlertRule') =
                    { CASE LastCall(arLog)[2] = "ok" -> "True"
                        [] LastCall(arLog)[2] = "notfound" -> "False"
                        [] OTHER -> "Unknown" } ]_vars

\* the Update of the run was accepted, the PrometheusRule was removed before
\* the re-fetch, and the accepted status write turned Ready to False
C24_Witness ==
    /\ arPc = "done" /\ arResult = "ok"
    /\ Len(arLog) = 5
    /\ arLog[3] = <<"updatePrometheusRule", "ok">>
    /\ arLog[4] = <<"refetchPrometheusRule", "notfound">>
    /\ arLog[5] = <<"updateStatus", "ok">>
    /\ ReadyStatus(storeAlertRule) = {"False"}
    /\ ~storePrometheusRule.exists

---------------------------------------------------------------------------
(* C25: on the path for an absent workload, a Get of DeploymentReconciler
   that finds the AlertRule "<workload>-alert" in the workload's namespace is
   followed by the Delete, whoever created the AlertRule and whatever owner
   references it carries, and the accepted Delete removes it; no step of
   DeploymentReconciler, on any path, deletes or changes an AlertRule under
   another name or in another namespace. *)
C25_DeletionKeyedByName ==
    [][ DRActs =>
        /\ (drPc = "delGet" /\ storeAlertRule.exists
               /\ LastCall(drLog')[2] # "fault")
              => (drPc' = "delete" /\ storeAlertRule' = storeAlertRule)
        /\ (drPc = "delete" /\ LastCall(drLog')[2] = "ok")
              => ~storeAlertRule'.exists
        /\ storeOtherAlertRules' = storeOtherAlertRules ]_vars

\* no workload ever existed, so the AlertRule was created by a user, without
\* owner reference; the run deleted it, and the AlertRule of the same name in
\* the other namespace and the one owned by the workload under another name
\* are still there
C25_Witness ==
    /\ created[DeploymentKind] = 0 /\ created[AlertRuleKind] = 1
    /\ ~storeAlertRule.exists
    /\ drPc = "done" /\ drResult = "ok"
    /\ Len(drLog) = 3 /\ drLog[3] = <<"deleteAlertRule", "ok">>
    /\ \A key \in OtherKeys : storeOtherAlertRules[key].exists

---------------------------------------------------------------------------
(* C26: in the ConfigMap backend no step removes a condition from the
   stored AlertRule or leaves one with a status other than True: every
   condition type in the list before a step is in the list after it, and
   every condition in the list is True.  A Degraded condition written by a
   failed run therefore stays, True, beside Available and Progressing after
   a later run that succeeds. *)
ConditionTypes(alertRule) ==
    { alertRule.conditions[i].type : i \in 1..Len(alertRule.conditions) }

C26_ConditionsOnlyAccumulate ==
    [][ (storeAlertRule.exists /\ storeAlertRule'.exists
            /\ storeAlertRule'.uid = storeAlertRule.uid)
        => /\ ConditionTypes(storeAlertRule) \subseteq ConditionTypes(storeAlertRule')
           /\ \A i \in 1..Len(storeAlertRule'.conditions) :
                 storeAlertRule'.conditions[i].status = "True" ]_vars

\* a run that succeeded has written Available, and the Degraded condition of
\* an earlier, failed run is still in the list
C26_Witness ==
    /\ arPc = "done" /\ arResult = "ok"
    /\ Len(arLog) > 0 /\ LastCall(arLog) = <<"statusAvailable", "ok">>
    /\ storeAlertRule.exists
    /\ ConditionTypes(storeAlertRule) = {"Progressing", "Degraded", "Available"}
    /\ \A i \in 1..Len(storeAlertRule.conditions) :
          storeAlertRule.conditions[i].status = "True"

====
